---- MODULE Spec2Model ----
(***************************************************************************)
(* A model of the evohome HGI80 listener: the telegram parser, the command *)
(* catalog, the payload decoders with the zone store they mutate, the      *)
(* outbound command queue, and the goroutines of main (the read/send loop, *)
(* the periodic refresh and the health check that resets the serial port). *)
(*                                                                         *)
(* Text is modelled as sequences of one-character strings, so that Go's    *)
(* byte-offset slicing (and its out-of-range panics), the grammar regexp   *)
(* and the hex conversions are computed rather than assumed.               *)
(* float64 values are kept exactly, in hundredths: float64(raw)/100        *)
(* degrees is the integer raw, and float64(raw)/200*100 percent is raw*50. *)
(***************************************************************************)
EXTENDS Integers, Sequences, FiniteSets, TLC

\* ------------------------------------------------------------------ bounds

\* Cycles of the periodic refresh goroutine in one run.
MaxCycles == 5
\* Iterations of the main loop in one run.
MaxIter == 2
\* Iterations of the main loop in one run next to the refresh goroutine.
MaxQueueIter == 1
\* Iterations of the main loop in one run that drains the command queue.
MaxDrainIter == 4

\* -------------------------------------------------------- program constants

\* make(chan Command, 100)
QueueCap == 100
\* for i := 0; i < 12; i++   (zone ids requested by the refresh goroutine)
ZoneCount == 12

\* ------------------------------------------------------------- characters

Digits == {"0", "1", "2", "3", "4", "5", "6", "7", "8", "9"}
HexChars == <<"0", "1", "2", "3", "4", "5", "6", "7", "8", "9", "A", "B", "C", "D", "E", "F">>

\* The lower-case letters the bus lines use, with their upper case.
UpperOf ==
  [c \in {"a", "b", "c", "d", "e", "f"} |->
     CASE c = "a" -> "A" [] c = "b" -> "B" [] c = "c" -> "C"
       [] c = "d" -> "D" [] c = "e" -> "E" [] c = "f" -> "F"]

\* strings.ToUpper, on one character
ToUpperChar(c) == IF c \in DOMAIN UpperOf THEN UpperOf[c] ELSE c

ToUpper(s) == [i \in 1..Len(s) |-> ToUpperChar(s[i])]

\* The value of every upper-case hex digit.
HexDigit == [c \in {HexChars[i] : i \in 1..16} |-> (CHOOSE i \in 1..16 : HexChars[i] = c) - 1]

\* [0-9a-fA-F]
IsHexChar(c) == ToUpperChar(c) \in DOMAIN HexDigit

HexVal(c) == HexDigit[ToUpperChar(c)]

\* Go's s[a:b] is defined when a <= b <= len(s), and panics otherwise.
InRange(s, a, b) == 0 <= a /\ a <= b /\ b <= Len(s)

\* Go's s[a:b] (0-based, b excluded), where it is defined.
Slice(s, a, b) == SubSeq(s, a + 1, b)

\* strings.Contains
Contains(s, pat) ==
  \E i \in 0..(Len(s) - Len(pat)) : Slice(s, i, i + Len(pat)) = pat

IsSpaceChar(c) == c \in {" ", "\t", "\n", "\r"}

\* strings.TrimSpace: from the first to the last character that is no space.
TrimSpace(s) ==
  LET kept == { i \in 1..Len(s) : ~IsSpaceChar(s[i]) }
  IN IF kept = {} THEN <<>>
     ELSE SubSeq(s, CHOOSE i \in kept : \A j \in kept : i <= j,
                    CHOOSE i \in kept : \A j \in kept : j <= i)

\* The value of a digit character in strconv's sense: 0-9, then letters from 10.
DigitVal(c) == IF IsHexChar(c) THEN HexVal(c) ELSE 36

\* The number the digits of s write in the base, most significant first.
DigitsValue(s, base) ==
  LET value[i \in 0..Len(s)] == IF i = 0 THEN 0 ELSE value[i - 1] * base + DigitVal(s[i])
  IN value[Len(s)]

\* strconv.ParseInt(s, base, bitSize) for unsigned text of at most four
\* characters (no value here reaches the range limit of any bitSize used):
\* an invalid base, an empty string or a character that is no digit of the
\* base gives (0, error); the callers drop the error and use the 0.
ParseInt(s, base, bitSize) ==
  IF ~(base = 0 \/ (2 <= base /\ base <= 36)) THEN [val |-> 0, err |-> TRUE]
  ELSE IF Len(s) = 0 \/ (\E i \in 1..Len(s) : DigitVal(s[i]) >= base)
       THEN [val |-> 0, err |-> TRUE]
       ELSE [val |-> DigitsValue(s, base), err |-> FALSE]

\* The bytes an even number of hex characters write.
HexBytes(s) == [i \in 1..(Len(s) \div 2) |-> HexVal(s[2 * i - 1]) * 16 + HexVal(s[2 * i])]

\* hex.DecodeString: an odd length or a non-hex character is an error.
HexDecodeString(s) ==
  IF Len(s) % 2 # 0 \/ (\E i \in 1..Len(s) : ~IsHexChar(s[i]))
  THEN [bytes |-> <<>>, err |-> TRUE]
  ELSE [bytes |-> HexBytes(s), err |-> FALSE]

\* fmt.Sprintf("%02X", v) for v >= 0: upper-case hex, at least two digits.
RECURSIVE HexDigitsOf(_)
HexDigitsOf(v) ==
  IF v < 16 THEN <<HexChars[v + 1]>>
  ELSE HexDigitsOf(v \div 16) \o <<HexChars[(v % 16) + 1]>>

Sprintf02X(v) == IF v < 16 THEN <<"0">> \o HexDigitsOf(v) ELSE HexDigitsOf(v)

\* fmt.Sprintf("%03d", n) for 0 <= n
DecDigit(n) == HexChars[n + 1]

RECURSIVE DecDigitsOf(_)
DecDigitsOf(n) ==
  IF n < 10 THEN <<DecDigit(n)>> ELSE DecDigitsOf(n \div 10) \o <<DecDigit(n % 10)>>

Sprintf03d(n) ==
  IF n < 10 THEN <<"0", "0">> \o DecDigitsOf(n)
  ELSE IF n < 100 THEN <<"0">> \o DecDigitsOf(n)
  ELSE DecDigitsOf(n)

\* ---------------------------------------------------------------- catalog

commandsMap ==
  { <<<<"0", "0", "0", "2">>, "external_sensor">>,
    <<<<"0", "0", "0", "4">>, "zone_name">>,
    <<<<"0", "0", "0", "6">>, "schedule_sync">>,
    <<<<"0", "0", "0", "8">>, "relay_heat_demand">>,
    <<<<"0", "0", "0", "A">>, "zone_info">>,
    <<<<"0", "1", "0", "0">>, "other_command">>,
    <<<<"0", "4", "1", "8">>, "device_info">>,
    <<<<"1", "0", "6", "0">>, "battery_info">>,
    <<<<"1", "0", "A", "0">>, "dhw_settings">>,
    <<<<"1", "0", "E", "0">>, "heartbeat">>,
    <<<<"1", "2", "6", "0">>, "dhw_temperature">>,
    <<<<"1", "2", "B", "0">>, "window_status">>,
    <<<<"1", "F", "0", "9">>, "sync">>,
    <<<<"1", "F", "4", "1">>, "dhw_state">>,
    <<<<"1", "F", "C", "9">>, "bind">>,
    <<<<"2", "2", "C", "9">>, "setpoint_ufh">>,
    <<<<"2", "3", "0", "9">>, "setpoint">>,
    <<<<"2", "3", "4", "9">>, "setpoint_override">>,
    <<<<"2", "E", "0", "4">>, "controller_mode">>,
    <<<<"3", "0", "C", "9">>, "zone_temperature">>,
    <<<<"3", "1", "3", "F">>, "date_request">>,
    <<<<"3", "1", "5", "0">>, "zone_heat_demand">>,
    <<<<"3", "B", "0", "0">>, "actuator_check_req">>,
    <<<<"3", "E", "F", "0">>, "actuator_state">> }

\* A Go map lookup m[k]: the value, or "" when the key is absent.
MapLookup(m, k) ==
  IF \E p \in m : p[1] = k THEN (CHOOSE p \in m : p[1] = k)[2] ELSE ""

\* reverseMap that leaves the pairs of one value out.
reverseMapPartial(m) == { <<p[2], p[1]>> : p \in { q \in m : q[2] # "device_info" } }

\* reverseMap(originalMap): reverseMap[v] = k for every k, v (a later pair
\* with the same value would overwrite an earlier one; the catalog has none).
reverseMap(m) == { <<p[2], p[1]>> : p \in m }

reverseCommandsMap == reverseMap(commandsMap)

\* reverseCommandsMap[name]: the code, or the empty string.
ReverseLookup(name) ==
  IF \E p \in reverseCommandsMap : p[1] = name
  THEN (CHOOSE p \in reverseCommandsMap : p[1] = name)[2]
  ELSE <<>>

deviceTypeMap ==
  { <<<<"0", "1">>, "CTL">>,
    <<<<"0", "2">>, "UFH">>,
    <<<<"0", "4">>, "TRV">>,
    <<<<"0", "7">>, "DHW">>,
    <<<<"1", "0">>, "OTB">>,
    <<<<"1", "3">>, "BDR">>,
    <<<<"3", "0">>, "GWAY">>,
    <<<<"3", "4">>, "STAT">> }

\* A lookup that leaves the "" of an absent key as it is; the rule for
\* unknown command codes must tell it from LookupOr.
LookupOrEmpty(m, k, dflt) == MapLookup(m, k)

\* A Go map[string]string lookup with the "" of an absent key replaced by dflt.
LookupOr(m, k, dflt) == IF MapLookup(m, k) = "" THEN dflt ELSE MapLookup(m, k)

\* ----------------------------------------------------------------- parser

IsDigitAt(s, i) == s[i + 1] \in Digits

\* \d{2}:\d{6} at offset o
IsAddrAt(s, o) ==
  /\ IsDigitAt(s, o) /\ IsDigitAt(s, o + 1)
  /\ s[o + 3] = ":"
  /\ \A k \in 3..8 : IsDigitAt(s, o + k)

\* --:------ at offset o
IsNullAt(s, o) ==
  /\ s[o + 1] = "-" /\ s[o + 2] = "-" /\ s[o + 3] = ":"
  /\ \A k \in 3..8 : s[o + k + 1] = "-"

\* (--:------ |\d{2}:\d{6} ) at offset o
IsSlotAt(s, o) == (IsNullAt(s, o) \/ IsAddrAt(s, o)) /\ s[o + 10] = " "

MessageTypes == { <<" ", "I">>, <<" ", "W">>, <<"R", "Q">>, <<"R", "P">> }

RQ == <<"R", "Q">>
RP == <<"R", "P">>

\* regexp.MatchString(`^\d{3} ( I| W|RQ|RP) --- \d{2}:\d{6}
\*   (--:------ |\d{2}:\d{6} ){2}[0-9a-fA-F]{4} \d{3}`, rawmsg):
\* anchored at the start only, so it reads the first 49 characters.
IsValidMessage(rawmsg) ==
  /\ Len(rawmsg) >= 49
  /\ \A k \in 0..2 : IsDigitAt(rawmsg, k)
  /\ rawmsg[4] = " "
  /\ Slice(rawmsg, 4, 6) \in MessageTypes
  /\ Slice(rawmsg, 6, 11) = <<" ", "-", "-", "-", " ">>
  /\ IsAddrAt(rawmsg, 11)
  /\ rawmsg[21] = " "
  /\ IsSlotAt(rawmsg, 21)
  /\ IsSlotAt(rawmsg, 31)
  /\ \A k \in 41..44 : IsHexChar(rawmsg[k + 1])
  /\ rawmsg[46] = " "
  /\ \A k \in 46..48 : IsDigitAt(rawmsg, k)

NullAddr == <<"-", "-", ":", "-", "-", "-", "-", "-", "-">>

\* Message{rawmsg: rawmsg}: every other field at its zero value.
EmptyMessage(rawmsg) ==
  [ panic |-> FALSE, rawmsg |-> rawmsg, messageType |-> <<>>,
    sourceTypeCode |-> <<>>, sourceType |-> "", sourceID |-> <<>>,
    destinationTypeCode |-> <<>>, destinationType |-> "", destinationID |-> <<>>,
    isBroadcast |-> FALSE, commandCode |-> <<>>, commandType |-> "",
    payloadLength |-> 0, payload |-> <<>> ]

\* The outcome of a DecodeMessage that has faulted: no Message is returned.
PanicMessage(rawmsg) == [EmptyMessage(rawmsg) EXCEPT !.panic = TRUE]

\* DecodeMessage: every slice is by fixed byte offset; rawmsg[50:] needs
\* len(rawmsg) >= 50 and panics on a shorter line.
DecodeMessage(rawmsg) ==
  IF ~InRange(rawmsg, 50, Len(rawmsg)) THEN PanicMessage(rawmsg)
  ELSE
    LET messageType == TrimSpace(Slice(rawmsg, 4, 6))
        source == Slice(rawmsg, 11, 20)
        sourceTypeCode == Slice(source, 0, 2)
        sourceType == LookupOr(deviceTypeMap, sourceTypeCode, "NA")
        sourceID == Slice(source, 3, Len(source))
        destination == IF Slice(rawmsg, 21, 30) = NullAddr
                       THEN Slice(rawmsg, 31, 40)
                       ELSE Slice(rawmsg, 21, 30)
        destinationTypeCode == Slice(destination, 0, 2)
        destinationType == LookupOr(deviceTypeMap, destinationTypeCode, "NA")
        destinationID == Slice(destination, 3, Len(destination))
        commandCode == Slice(rawmsg, 41, 45)
        commandType == LookupOr(commandsMap, ToUpper(commandCode), "unknown")
        parsed == ParseInt(Slice(rawmsg, 46, 49), 10, 64)
    IN [ panic |-> FALSE,
         rawmsg |-> rawmsg,
         messageType |-> messageType,
         sourceTypeCode |-> sourceTypeCode,
         sourceType |-> sourceType,
         sourceID |-> sourceID,
         destinationTypeCode |-> destinationTypeCode,
         destinationType |-> destinationType,
         destinationID |-> destinationID,
         isBroadcast |-> (source = destination),
         commandCode |-> commandCode,
         commandType |-> commandType,
         payloadLength |-> IF parsed.err THEN 0 ELSE parsed.val,
         payload |-> Slice(rawmsg, 50, Len(rawmsg)) ]

\* ------------------------------------------------------------- zone store

\* ZoneInfo{ID: id}: every other field at its zero value.
NewZoneInfo(id) ==
  [ ID |-> id, Name |-> <<>>, MinTemperature |-> 0, MaxTemperature |-> 0,
    Temperature |-> 0, Setpoint |-> 0, HeatDemand |-> 0 ]

\* A store write that takes a record only while its temperature and
\* setpoint are below 100 degrees; the boundary rule must tell it from Put.
PutBelowCeiling(zones, id, info) ==
  IF info.Temperature >= 100 * 100 \/ info.Setpoint >= 100 * 100
  THEN zones
  ELSE [k \in (DOMAIN zones) \cup {id} |-> IF k = id THEN info ELSE zones[k]]

\* A write that leaves the written record alone in the store.
PutAlone(zones, id, info) == [k \in {id} |-> info]

\* zoneNames[id] = info
Put(zones, id, info) ==
  [k \in (DOMAIN zones) \cup {id} |-> IF k = id THEN info ELSE zones[k]]

\* "Opentherm" as bytes
OpenthermName == <<79, 112, 101, 110, 116, 104, 101, 114, 109>>

\* readStateFromStateFile, without a state file: the store holds the
\* boiler interface alone.
InitialZones == (252 :> [NewZoneInfo(252) EXCEPT !.Name = OpenthermName])

\* --------------------------------------------------------------- commands

\* *evohomeID: the controller's address, from the deployment's configuration.
evohomeID == <<"0", "1", ":", "1", "6", "0", "3", "7", "1">>

\* Command{messageType: "RQ", commandName: name, destinationID: *evohomeID,
\*         payload: &DefaultPayload{Values: values}}
RequestCommand(name, values) ==
  [ messageType |-> RQ, commandName |-> name, broadcast |-> FALSE,
    destinationID |-> evohomeID, payload |-> values ]

\* ----------------------------------------------------------- measurements

Null == "null"

\* The BigQueryMeasurement a decoder inserts for one block: the zone fields
\* and the one value that is Valid (the others are Null).
Measurement(message, zoneID, zoneInfo, knownZone, field, value) ==
  [ CommandType |-> message.commandType,
    ZoneID |-> zoneID,
    ZoneName |-> zoneInfo.Name,
    ZoneNameValid |-> (knownZone /\ zoneInfo.Name # <<>>),
    DemandPercentage |-> IF field = "DemandPercentage" THEN value ELSE Null,
    Temperature |-> IF field = "Temperature" THEN value ELSE Null,
    Setpoint |-> IF field = "Setpoint" THEN value ELSE Null ]

\* ---------------------------------------------------------------- decoders
\* A decoder's run is a record: zones (the store), emitted (the measurements
\* inserted), inserts (InsertMeasurements calls made), enq (the commands it
\* sends to the command queue), handler (the branch that ran), panic (a slice
\* out of range ended the process) and fatal (log.Fatal ended it).

StartRun(zones) ==
  [ zones |-> zones, emitted |-> <<>>, inserts |-> 0, enq |-> <<>>,
    handler |-> "", panic |-> FALSE, fatal |-> FALSE ]

\* ProcessUnknownMessage: a log line.
ProcessUnknownMessage(message, run) == [run EXCEPT !.handler = "unknown"]

\* The condition with the comparison turned round; the emission rule must
\* tell it from EmitsMeasurement.
EmitsMeasurementBelow(zoneID, zoneInfo) == zoneID < 12 \/ zoneInfo.Name # <<>>

\* if zoneID >= 12 || zoneInfo.Name != ""
EmitsMeasurement(zoneID, zoneInfo) == zoneID >= 12 \/ zoneInfo.Name # <<>>

\* A block tail that goes on after a failed insert, leaving the measurement
\* out; the rule that a failed insert ends the process must tell it from
\* StoreAndEmit.
StoreAndEmitLogged(message, run, zoneID, zoneInfo, knownZone, field, value, failAt) ==
  LET stored == [run EXCEPT !.zones = Put(run.zones, zoneID, zoneInfo)]
  IN IF ~EmitsMeasurement(zoneID, zoneInfo) THEN stored
     ELSE IF stored.inserts + 1 = failAt
          THEN [stored EXCEPT !.inserts = @ + 1]
          ELSE [stored EXCEPT
                  !.inserts = @ + 1,
                  !.emitted = Append(@, Measurement(message, zoneID, zoneInfo,
                                                    knownZone, field, value))]

\* The tail of a block of the temperature, setpoint and heat demand decoders:
\* the store write, then the gated InsertMeasurements, whose failure is fatal.
\* failAt is the number of the insert that fails (0: none does).
StoreAndEmit(message, run, zoneID, zoneInfo, knownZone, field, value, failAt) ==
  LET stored == [run EXCEPT !.zones = Put(run.zones, zoneID, zoneInfo)]
  IN IF ~EmitsMeasurement(zoneID, zoneInfo) THEN stored
     ELSE IF stored.inserts + 1 = failAt
          THEN [stored EXCEPT !.inserts = @ + 1, !.fatal = TRUE]
          ELSE [stored EXCEPT
                  !.inserts = @ + 1,
                  !.emitted = Append(@, Measurement(message, zoneID, zoneInfo,
                                                    knownZone, field, value))]

\* if temperatureDegrees > 100 / if setpointDegrees > 100, on the value in
\* hundredths. The branch this guards only logs and falls through, so the
\* decoders below have no case for it.
TemperatureTooHigh(temperature) == temperature > 100 * 100

\* A block that adds its value to the temperature a known zone holds; the
\* rule that a repeated telegram changes nothing must tell it from
\* TemperatureBlock.
TemperatureBlockAdding(message, run, i, failAt) ==
  IF ~InRange(message.payload, i, i + 2) \/ ~InRange(message.payload, i + 2, i + 6)
  THEN [run EXCEPT !.panic = TRUE]
  ELSE
    LET zoneID == ParseInt(Slice(message.payload, i, i + 2), 16, 64).val
        temperature == ParseInt(Slice(message.payload, i + 2, i + 6), 16, 64).val
        knownZone == zoneID \in DOMAIN run.zones
        zoneInfo == IF knownZone
                    THEN [run.zones[zoneID] EXCEPT !.Temperature = @ + temperature]
                    ELSE [NewZoneInfo(zoneID) EXCEPT !.Temperature = temperature]
    IN StoreAndEmit(message, run, zoneID, zoneInfo, knownZone,
                    "Temperature", temperature, failAt)

\* One block of ProcessZoneTemperatureMessage (the loop body at offset i).
TemperatureBlock(message, run, i, failAt) ==
  IF ~InRange(message.payload, i, i + 2) \/ ~InRange(message.payload, i + 2, i + 6)
  THEN [run EXCEPT !.panic = TRUE]
  ELSE
    LET zoneID == ParseInt(Slice(message.payload, i, i + 2), 16, 64).val
        temperature == ParseInt(Slice(message.payload, i + 2, i + 6), 16, 64).val
        knownZone == zoneID \in DOMAIN run.zones
        zoneInfo == IF knownZone
                    THEN [run.zones[zoneID] EXCEPT !.Temperature = temperature]
                    ELSE [NewZoneInfo(zoneID) EXCEPT !.Temperature = temperature]
    IN StoreAndEmit(message, run, zoneID, zoneInfo, knownZone,
                    "Temperature", temperature, failAt)

\* A loop that stops after the block at offset i; the rule of one update per
\* block must tell it from TemperatureLoop.
TemperatureLoopFirst(message, run, i, failAt) ==
  IF run.panic \/ run.fatal \/ ~(i < 2 * message.payloadLength) THEN run
  ELSE TemperatureBlock(message, run, i, failAt)

RECURSIVE TemperatureLoop(_, _, _, _)
TemperatureLoop(message, run, i, failAt) ==
  IF run.panic \/ run.fatal \/ ~(i < 2 * message.payloadLength) THEN run
  ELSE TemperatureLoop(message, TemperatureBlock(message, run, i, failAt), i + 6, failAt)

ProcessZoneTemperatureMessage(message, run, failAt) ==
  IF /\ message.sourceType = "CTL"
     /\ message.messageType # RQ
     /\ message.payloadLength % 3 = 0
  THEN TemperatureLoop(message, [run EXCEPT !.handler = "zone_temperature"], 0, failAt)
  ELSE ProcessUnknownMessage(message, run)

\* A gate that lets every setpoint through; the gating rule must tell it
\* from GatedSetpoint.
UngatedSetpoint(zoneInfo, setpoint) == setpoint

\* The setpoint a block leaves in a record already in the store.
GatedSetpoint(zoneInfo, setpoint) ==
  IF zoneInfo.MinTemperature # 0 /\ zoneInfo.MaxTemperature # 0
  THEN IF setpoint > zoneInfo.MinTemperature /\ setpoint < zoneInfo.MaxTemperature
       THEN setpoint
       ELSE zoneInfo.Setpoint
  ELSE setpoint

\* One block of ProcessSetpointMessage.
SetpointBlock(message, run, i, failAt) ==
  IF ~InRange(message.payload, i, i + 2) \/ ~InRange(message.payload, i + 2, i + 6)
  THEN [run EXCEPT !.panic = TRUE]
  ELSE
    LET zoneID == ParseInt(Slice(message.payload, i, i + 2), 16, 64).val
        setpoint == ParseInt(Slice(message.payload, i + 2, i + 6), 16, 64).val
        knownZone == zoneID \in DOMAIN run.zones
        zoneInfo == IF knownZone
                    THEN [run.zones[zoneID] EXCEPT
                            !.Setpoint = GatedSetpoint(run.zones[zoneID], setpoint)]
                    ELSE [NewZoneInfo(zoneID) EXCEPT !.Setpoint = setpoint]
    IN StoreAndEmit(message, run, zoneID, zoneInfo, knownZone,
                    "Setpoint", setpoint, failAt)

RECURSIVE SetpointLoop(_, _, _, _)
SetpointLoop(message, run, i, failAt) ==
  IF run.panic \/ run.fatal \/ ~(i < 2 * message.payloadLength) THEN run
  ELSE SetpointLoop(message, SetpointBlock(message, run, i, failAt), i + 6, failAt)

ProcessSetpointMessage(message, run, failAt) ==
  IF /\ message.sourceType = "CTL"
     /\ message.messageType # RQ
     /\ message.payloadLength % 3 = 0
  THEN SetpointLoop(message, [run EXCEPT !.handler = "setpoint"], 0, failAt)
  ELSE ProcessUnknownMessage(message, run)

\* A demand that takes the raw value for the percentage, in hundredths of a
\* percent; the heat demand rule must tell it from DemandPercentage.
DemandPercentageOfHundred(demand) == demand * 100

\* float64(demand) / 200 * 100, in hundredths of a percent
DemandPercentage(demand) == (demand * 100 * 100) \div 200

\* A heat demand decoder that writes a fresh record whether or not the store
\* holds the zone; the merge rule must tell it from processHeatDemandMessage.
processHeatDemandMessageReplacing(message, run, failAt) ==
  IF message.payloadLength = 2
  THEN
    IF ~InRange(message.payload, 0, 2) \/ ~InRange(message.payload, 2, 4)
    THEN [run EXCEPT !.handler = "heat_demand", !.panic = TRUE]
    ELSE
      LET zoneID == ParseInt(Slice(message.payload, 0, 2), 16, 64).val
          demand == ParseInt(Slice(message.payload, 2, 4), 16, 64).val
          knownZone == zoneID \in DOMAIN run.zones
          zoneInfo == [NewZoneInfo(zoneID) EXCEPT !.HeatDemand = DemandPercentage(demand)]
      IN StoreAndEmit(message, [run EXCEPT !.handler = "heat_demand"], zoneID, zoneInfo,
                      knownZone, "DemandPercentage", DemandPercentage(demand), failAt)
  ELSE ProcessUnknownMessage(message, run)

\* processHeatDemandMessage, shared by the zone and the relay variant.
processHeatDemandMessage(message, run, failAt) ==
  IF message.payloadLength = 2
  THEN
    IF ~InRange(message.payload, 0, 2) \/ ~InRange(message.payload, 2, 4)
    THEN [run EXCEPT !.handler = "heat_demand", !.panic = TRUE]
    ELSE
      LET zoneID == ParseInt(Slice(message.payload, 0, 2), 16, 64).val
          demand == ParseInt(Slice(message.payload, 2, 4), 16, 64).val
          knownZone == zoneID \in DOMAIN run.zones
          zoneInfo == IF knownZone
                      THEN [run.zones[zoneID] EXCEPT !.HeatDemand = DemandPercentage(demand)]
                      ELSE [NewZoneInfo(zoneID) EXCEPT !.HeatDemand = DemandPercentage(demand)]
      IN StoreAndEmit(message, [run EXCEPT !.handler = "heat_demand"], zoneID, zoneInfo,
                      knownZone, "DemandPercentage", DemandPercentage(demand), failAt)
  ELSE ProcessUnknownMessage(message, run)

\* One block of ProcessZoneInfoMessage: 12 characters from offset i.
ZoneInfoBlock(message, run, i) ==
  IF \/ ~InRange(message.payload, i, i + 2)
     \/ ~InRange(message.payload, i + 4, i + 8)
     \/ ~InRange(message.payload, i + 8, i + 12)
  THEN [run EXCEPT !.panic = TRUE]
  ELSE
    LET zoneID == ParseInt(Slice(message.payload, i, i + 2), 16, 64).val
        minTemperature == ParseInt(Slice(message.payload, i + 4, i + 8), 16, 64).val
        maxTemperature == ParseInt(Slice(message.payload, i + 8, i + 12), 16, 64).val
        knownZone == zoneID \in DOMAIN run.zones
        zoneInfo == IF knownZone
                    THEN [run.zones[zoneID] EXCEPT !.MinTemperature = minTemperature,
                                                   !.MaxTemperature = maxTemperature]
                    ELSE [NewZoneInfo(zoneID) EXCEPT !.MinTemperature = minTemperature,
                                                     !.MaxTemperature = maxTemperature]
    IN [run EXCEPT !.zones = Put(run.zones, zoneID, zoneInfo)]

RECURSIVE ZoneInfoLoop(_, _, _)
ZoneInfoLoop(message, run, i) ==
  IF run.panic \/ ~(i < 2 * message.payloadLength) THEN run
  ELSE ZoneInfoLoop(message, ZoneInfoBlock(message, run, i), i + 12)

\* ProcessZoneInfoMessage without the test of the source.
ProcessZoneInfoMessageAnySource(message, run) ==
  IF /\ message.messageType # RQ
     /\ message.payloadLength % 3 = 0
  THEN ZoneInfoLoop(message, [run EXCEPT !.handler = "zone_info"], 0)
  ELSE ProcessUnknownMessage(message, run)

ProcessZoneInfoMessage(message, run) ==
  IF /\ message.sourceType = "CTL"
     /\ message.messageType # RQ
     /\ message.payloadLength % 3 = 0
  THEN ZoneInfoLoop(message, [run EXCEPT !.handler = "zone_info"], 0)
  ELSE ProcessUnknownMessage(message, run)

\* [a-zA-Z ]
IsNameByte(b) == (65 <= b /\ b <= 90) \/ (97 <= b /\ b <= 122) \/ b = 32

\* reg.ReplaceAllString(name, "") with reg = `[^a-zA-Z ]+`
StripNonLetters(bytes) == SelectSeq(bytes, IsNameByte)

\* strings.TrimSpace on bytes: the space is the one white-space byte that
\* StripNonLetters leaves.
TrimSpaceBytes(b) ==
  LET kept == { i \in 1..Len(b) : b[i] # 32 }
  IN IF kept = {} THEN <<>>
     ELSE SubSeq(b, CHOOSE i \in kept : \A j \in kept : i <= j,
                    CHOOSE i \in kept : \A j \in kept : j <= i)

ZoneNameString(bytes) == TrimSpaceBytes(StripNonLetters(bytes))

\* A repair request that leaves out the second payload value; the repair
\* rule must tell it from ZoneNameRepair.
ZoneNameRepairShort(zoneID) == RequestCommand("zone_name", <<zoneID>>)

\* The command ProcessZoneNameMessage queues when hex.DecodeString fails.
ZoneNameRepair(zoneID) == RequestCommand("zone_name", <<zoneID, 0>>)

\* ProcessZoneNameMessage without the test for an empty name.
ProcessZoneNameMessageStoringEmpty(message, run) ==
  IF /\ message.sourceType = "CTL"
     /\ message.messageType = RP
     /\ message.payloadLength = 22
  THEN
    IF ~InRange(message.payload, 0, 2) \/ ~InRange(message.payload, 4, Len(message.payload))
    THEN [run EXCEPT !.handler = "zone_name", !.panic = TRUE]
    ELSE
      LET zoneID == ParseInt(Slice(message.payload, 0, 2), 16, 64).val
          zoneName == HexDecodeString(Slice(message.payload, 4, Len(message.payload)))
          zoneNameString == ZoneNameString(zoneName.bytes)
          knownZone == zoneID \in DOMAIN run.zones
          zoneInfo == IF knownZone
                      THEN [run.zones[zoneID] EXCEPT !.Name = zoneNameString]
                      ELSE [NewZoneInfo(zoneID) EXCEPT !.Name = zoneNameString]
      IN IF ~zoneName.err
         THEN [run EXCEPT !.handler = "zone_name",
                          !.zones = Put(run.zones, zoneID, zoneInfo)]
         ELSE [run EXCEPT !.handler = "zone_name",
                          !.enq = Append(@, ZoneNameRepair(zoneID))]
  ELSE ProcessUnknownMessage(message, run)

\* ProcessZoneNameMessage without the test of the message type.
ProcessZoneNameMessageAnyType(message, run) ==
  IF /\ message.sourceType = "CTL"
     /\ message.payloadLength = 22
  THEN
    IF ~InRange(message.payload, 0, 2) \/ ~InRange(message.payload, 4, Len(message.payload))
    THEN [run EXCEPT !.handler = "zone_name", !.panic = TRUE]
    ELSE
      LET zoneID == ParseInt(Slice(message.payload, 0, 2), 16, 64).val
          zoneName == HexDecodeString(Slice(message.payload, 4, Len(message.payload)))
          zoneNameString == ZoneNameString(zoneName.bytes)
          knownZone == zoneID \in DOMAIN run.zones
          zoneInfo == IF knownZone
                      THEN [run.zones[zoneID] EXCEPT !.Name = zoneNameString]
                      ELSE [NewZoneInfo(zoneID) EXCEPT !.Name = zoneNameString]
      IN IF ~zoneName.err
         THEN IF zoneNameString # <<>>
              THEN [run EXCEPT !.handler = "zone_name",
                               !.zones = Put(run.zones, zoneID, zoneInfo)]
              ELSE [run EXCEPT !.handler = "zone_name"]
         ELSE [run EXCEPT !.handler = "zone_name",
                          !.enq = Append(@, ZoneNameRepair(zoneID))]
  ELSE ProcessUnknownMessage(message, run)

ProcessZoneNameMessage(message, run) ==
  IF /\ message.sourceType = "CTL"
     /\ message.messageType = RP
     /\ message.payloadLength = 22
  THEN
    IF ~InRange(message.payload, 0, 2) \/ ~InRange(message.payload, 4, Len(message.payload))
    THEN [run EXCEPT !.handler = "zone_name", !.panic = TRUE]
    ELSE
      LET zoneID == ParseInt(Slice(message.payload, 0, 2), 16, 64).val
          zoneName == HexDecodeString(Slice(message.payload, 4, Len(message.payload)))
          zoneNameString == ZoneNameString(zoneName.bytes)
          knownZone == zoneID \in DOMAIN run.zones
          zoneInfo == IF knownZone
                      THEN [run.zones[zoneID] EXCEPT !.Name = zoneNameString]
                      ELSE [NewZoneInfo(zoneID) EXCEPT !.Name = zoneNameString]
      IN IF ~zoneName.err
         THEN IF zoneNameString # <<>>
              THEN [run EXCEPT !.handler = "zone_name",
                               !.zones = Put(run.zones, zoneID, zoneInfo)]
              ELSE [run EXCEPT !.handler = "zone_name"]
         ELSE [run EXCEPT !.handler = "zone_name",
                          !.enq = Append(@, ZoneNameRepair(zoneID))]
  ELSE ProcessUnknownMessage(message, run)

\* deviceID, _ := strconv.ParseInt(message.payload[0:2], 38, 44)
DeviceID(message) == ParseInt(Slice(message.payload, 0, 2), 38, 44).val

ProcessDeviceInfoMessage(message, run) ==
  IF /\ message.sourceType = "CTL"
     /\ message.messageType = RP
     /\ message.payloadLength = 22
  THEN
    IF \/ ~InRange(message.payload, 4, 6)
       \/ ~InRange(message.payload, 10, 12)
       \/ ~InRange(message.payload, 0, 2)
    THEN [run EXCEPT !.handler = "device_info", !.panic = TRUE]
    ELSE
      LET addr == ParseInt(Slice(message.payload, 4, 6), 16, 64).val
          nextDeviceAddr == addr + 1
      IN IF DeviceID(message) # 0
         THEN [run EXCEPT !.handler = "device_info",
                          !.enq = Append(@, RequestCommand("device_info",
                                                           <<0, 0, nextDeviceAddr>>))]
         ELSE [run EXCEPT !.handler = "device_info"]
  ELSE ProcessUnknownMessage(message, run)

\* ProcessMessage: the switch on message.commandType; every name without a
\* decoder of its own ends in ProcessUnknownMessage.
ProcessMessage(message, zones, failAt) ==
  LET run == StartRun(zones)
  IN CASE message.commandType = "zone_name" -> ProcessZoneNameMessage(message, run)
       [] message.commandType = "relay_heat_demand" -> processHeatDemandMessage(message, run, failAt)
       [] message.commandType = "zone_info" -> ProcessZoneInfoMessage(message, run)
       [] message.commandType = "device_info" -> ProcessDeviceInfoMessage(message, run)
       [] message.commandType = "setpoint" -> ProcessSetpointMessage(message, run, failAt)
       [] message.commandType = "zone_temperature" -> ProcessZoneTemperatureMessage(message, run, failAt)
       [] message.commandType = "zone_heat_demand" -> processHeatDemandMessage(message, run, failAt)
       [] OTHER -> ProcessUnknownMessage(message, run)

\* ---------------------------------------------------------------- encoder

\* DefaultPayload.GetPayloadHex
RECURSIVE ValuesHex(_)
ValuesHex(values) ==
  IF Len(values) = 0 THEN <<>> ELSE Sprintf02X(values[1]) \o ValuesHex(Tail(values))

GetPayloadHex(values) == IF Len(values) = 0 THEN ValuesHex(<<0>>) ELSE ValuesHex(values)

\* source := "18:730"
SendSource == <<"1", "8", ":", "7", "3", "0">>

Sp == <<" ">>
Dashes == <<"-", "-", "-">>

\* SendCommand's commandString, as written to the port (before "\r\n").
CommandString(command) ==
  LET commandCode == ReverseLookup(command.commandName)
      destination == IF command.broadcast THEN SendSource ELSE command.destinationID
      payload == GetPayloadHex(command.payload)
      payloadLength == Len(payload) \div 2
  IN IF command.broadcast
     THEN command.messageType \o Sp \o Dashes \o Sp \o SendSource \o Sp \o NullAddr \o Sp
          \o destination \o Sp \o commandCode \o Sp \o Sprintf03d(payloadLength) \o Sp \o payload
     ELSE command.messageType \o Sp \o Dashes \o Sp \o SendSource \o Sp \o destination \o Sp
          \o NullAddr \o Sp \o commandCode \o Sp \o Sprintf03d(payloadLength) \o Sp \o payload

\* ---------------------------------------------------------------- the bus
\* The lines the serial port delivers: telegrams of every decoder, from the
\* controller and from other devices, well-formed and not.

Counter == <<"0", "4", "5">>
Info == <<" ", "I">>
CTL == evohomeID
GW == <<"1", "8", ":", "0", "1", "0", "0", "5", "7">>
TRV == <<"0", "4", ":", "0", "0", "0", "0", "0", "1">>

\* <counter> <type> --- <addr> <slot> <slot> <code> <len> <payload>
MkLine(mtype, src, slot2, slot3, code, len3, payload) ==
  Counter \o Sp \o mtype \o Sp \o Dashes \o Sp \o src \o Sp \o slot2 \o Sp \o slot3
  \o Sp \o code \o Sp \o len3 \o Sp \o payload

\* " I" from the controller to itself (a broadcast)
Broadcast(code, len3, payload) == MkLine(Info, CTL, NullAddr, CTL, code, len3, payload)
\* "RP" from the controller to the gateway
Response(code, len3, payload) == MkLine(RP, CTL, GW, NullAddr, code, len3, payload)
\* "RQ" from the gateway to the controller
Request(code, len3, payload) == MkLine(RQ, GW, CTL, NullAddr, code, len3, payload)
\* " I" from a radiator valve to the controller
FromValve(code, len3, payload) == MkLine(Info, TRV, NullAddr, CTL, code, len3, payload)

\* Zone ids 0, 11, 12 and 252 as the two hex characters of a block.
ZoneByte ==
  [ z00 |-> <<"0", "0">>,
    z0B |-> <<"0", "B">>,
    z0C |-> <<"0", "C">>,
    zFC |-> <<"F", "C">> ]

\* 5.00, 20.00, 20.50, 35.00, 40.00, 100.00, 100.01 and 120.00 in centi-units,
\* four hex characters each.
Centi ==
  [ v500 |-> <<"0", "1", "F", "4">>,
    v2000 |-> <<"0", "7", "D", "0">>,
    v2050 |-> <<"0", "8", "0", "2">>,
    v3500 |-> <<"0", "D", "A", "C">>,
    v4000 |-> <<"0", "F", "A", "0">>,
    v10000 |-> <<"2", "7", "1", "0">>,
    v10001 |-> <<"2", "7", "1", "1">>,
    v12000 |-> <<"2", "E", "E", "0">> ]

\* Command codes: keys of commandsMap, one of them in lower case, and 7FFF,
\* which the map does not hold.
Codes ==
  [ c0004 |-> <<"0", "0", "0", "4">>,
    c0008 |-> <<"0", "0", "0", "8">>,
    c000A |-> <<"0", "0", "0", "A">>,
    c0418 |-> <<"0", "4", "1", "8">>,
    c1F09 |-> <<"1", "F", "0", "9">>,
    c2309 |-> <<"2", "3", "0", "9">>,
    c30C9 |-> <<"3", "0", "C", "9">>,
    c30c9 |-> <<"3", "0", "c", "9">>,
    c3150 |-> <<"3", "1", "5", "0">>,
    c7FFF |-> <<"7", "F", "F", "F">> ]

\* The payload length field: 0, 2, 3, 6 and 22 bytes.
LengthField ==
  [ l000 |-> <<"0", "0", "0">>,
    l002 |-> <<"0", "0", "2">>,
    l003 |-> <<"0", "0", "3">>,
    l006 |-> <<"0", "0", "6">>,
    l022 |-> <<"0", "2", "2">> ]

TemperatureLines ==
  { Broadcast(Codes.c30C9, LengthField.l003, ZoneByte.z00 \o v) : v \in {Centi.v2000, Centi.v10000, Centi.v10001, Centi.v12000} }
  \cup { Broadcast(Codes.c30C9, LengthField.l003, ZoneByte.z0C \o Centi.v2000),
         Broadcast(Codes.c30C9, LengthField.l003, ZoneByte.zFC \o Centi.v12000),
         Broadcast(Codes.c30C9, LengthField.l006, ZoneByte.z00 \o Centi.v2050 \o ZoneByte.z0B \o Centi.v2000),
         Broadcast(Codes.c30c9, LengthField.l003, ZoneByte.z00 \o Centi.v2050),
         Broadcast(Codes.c30C9, LengthField.l000, <<>>),
         Request(Codes.c30C9, LengthField.l003, ZoneByte.z00 \o Centi.v2000),
         FromValve(Codes.c30C9, LengthField.l003, ZoneByte.z00 \o Centi.v2000) }

SetpointLines ==
  { Broadcast(Codes.c2309, LengthField.l003, ZoneByte.z00 \o v) : v \in {Centi.v500, Centi.v2000, Centi.v4000, Centi.v12000} }
  \cup { Broadcast(Codes.c2309, LengthField.l003, ZoneByte.z0C \o Centi.v4000),
         Broadcast(Codes.c2309, LengthField.l003, ZoneByte.zFC \o Centi.v12000),
         Broadcast(Codes.c2309, LengthField.l006, ZoneByte.z00 \o Centi.v2000 \o ZoneByte.z00 \o Centi.v4000),
         FromValve(Codes.c2309, LengthField.l003, ZoneByte.z00 \o Centi.v2000) }

Flags == <<"1", "0">>

ZoneInfoLines ==
  { Response(Codes.c000A, LengthField.l006, z \o Flags \o Centi.v500 \o Centi.v3500) : z \in {ZoneByte.z00, ZoneByte.z0C} }
  \cup { Response(Codes.c000A, LengthField.l006, ZoneByte.z00 \o Flags \o <<"0", "0", "0", "0">> \o Centi.v3500),
         Request(Codes.c000A, LengthField.l006, ZoneByte.z00 \o Flags \o Centi.v500 \o Centi.v3500),
         FromValve(Codes.c000A, LengthField.l006, ZoneByte.z00 \o Flags \o Centi.v500 \o Centi.v3500) }

\* " A1 " (stored as "A"), "B", no name, a non-hex character, an odd length;
\* and the byte between the zone id and the name.
NameHex ==
  [ a |->
      <<"2", "0", "4", "1", "3", "1", "2", "0", "0", "0", "0", "0", "0", "0", "0", "0", "0", "0", "0", "0", "0", "0", "0", "0", "0", "0", "0", "0", "0", "0", "0", "0", "0", "0", "0", "0", "0", "0", "0", "0">>,
    b |->
      <<"4", "2", "0", "0", "0", "0", "0", "0", "0", "0", "0", "0", "0", "0", "0", "0", "0", "0", "0", "0", "0", "0", "0", "0", "0", "0", "0", "0", "0", "0", "0", "0", "0", "0", "0", "0", "0", "0", "0", "0">>,
    empty |->
      <<"0", "0", "0", "0", "0", "0", "0", "0", "0", "0", "0", "0", "0", "0", "0", "0", "0", "0", "0", "0", "0", "0", "0", "0", "0", "0", "0", "0", "0", "0", "0", "0", "0", "0", "0", "0", "0", "0", "0", "0">>,
    nonHex |->
      <<"4", "G", "0", "0", "0", "0", "0", "0", "0", "0", "0", "0", "0", "0", "0", "0", "0", "0", "0", "0", "0", "0", "0", "0", "0", "0", "0", "0", "0", "0", "0", "0", "0", "0", "0", "0", "0", "0", "0", "0">>,
    odd |->
      <<"4", "1", "0", "0", "0", "0", "0", "0", "0", "0", "0", "0", "0", "0", "0", "0", "0", "0", "0", "0", "0", "0", "0", "0", "0", "0", "0", "0", "0", "0", "0", "0", "0", "0", "0", "0", "0", "0", "0">>,
    reserved |-> <<"0", "0">> ]

ZoneNameLines ==
  { Response(Codes.c0004, LengthField.l022, ZoneByte.z00 \o NameHex.reserved \o NameHex.a),
    Response(Codes.c0004, LengthField.l022, ZoneByte.z0C \o NameHex.reserved \o NameHex.b),
    Response(Codes.c0004, LengthField.l022, ZoneByte.z00 \o NameHex.reserved \o NameHex.empty),
    Response(Codes.c0004, LengthField.l022, ZoneByte.z00 \o NameHex.reserved \o NameHex.nonHex),
    Response(Codes.c0004, LengthField.l022, ZoneByte.z0B \o NameHex.reserved \o NameHex.odd),
    Broadcast(Codes.c0004, LengthField.l022, ZoneByte.z00 \o NameHex.reserved \o NameHex.b),
    Response(Codes.c0004, LengthField.l003, ZoneByte.z00 \o NameHex.reserved \o <<"4", "2">>),
    FromValve(Codes.c0004, LengthField.l022, ZoneByte.z00 \o NameHex.reserved \o NameHex.nonHex) }

HeatDemandLines ==
  { FromValve(Codes.c3150, LengthField.l002, ZoneByte.z00 \o <<"C", "8">>),
    FromValve(Codes.c3150, LengthField.l002, ZoneByte.z0C \o <<"6", "4">>),
    Broadcast(Codes.c0008, LengthField.l002, ZoneByte.zFC \o <<"6", "4">>),
    FromValve(Codes.c3150, LengthField.l003, ZoneByte.z00 \o <<"C", "8", "0", "0">>) }

\* The example response of the decoder's comment: the device number is the
\* last six characters; and the same with the zero sentinel.
DeviceHex ==
  [ more |->
      <<"0", "0", "4", "0", "0", "0", "B", "0", "0", "4", "0", "0", "0", "0", "0", "0", "0", "0", "0", "0", "A", "A", "1", "2", "B", "2", "C", "7", "7", "F", "F", "F", "F", "F", "7", "0", "0", "0", "0", "0", "0", "0", "0", "1">>,
    last |->
      <<"0", "0", "4", "0", "0", "0", "B", "0", "0", "4", "0", "0", "0", "0", "0", "0", "0", "0", "0", "0", "A", "A", "1", "2", "B", "2", "C", "7", "7", "F", "F", "F", "F", "F", "7", "0", "0", "0", "0", "0", "0", "0", "0", "0">> ]

DeviceInfoLines ==
  { Response(Codes.c0418, LengthField.l022, DeviceHex.more),
    Response(Codes.c0418, LengthField.l022, DeviceHex.last),
    FromValve(Codes.c0418, LengthField.l022, DeviceHex.more) }

OtherLines ==
  { Broadcast(Codes.c1F09, LengthField.l003, <<"F", "F", "0", "5", "1", "8">>),
    Broadcast(Codes.c7FFF, LengthField.l003, ZoneByte.z00 \o Centi.v2000) }

\* Lines that pass the length and grammar checks with fewer payload
\* characters than the length field declares.
ShortPayloadLines ==
  { Broadcast(Codes.c30C9, LengthField.l003, ZoneByte.z00),
    Broadcast(Codes.c30C9, LengthField.l006, ZoneByte.z00 \o Centi.v2000),
    Broadcast(Codes.c2309, LengthField.l003, ZoneByte.z00),
    FromValve(Codes.c3150, LengthField.l002, ZoneByte.z00),
    Response(Codes.c000A, LengthField.l003, ZoneByte.z00 \o Flags \o <<"0", "1">>),
    Response(Codes.c0004, LengthField.l022, ZoneByte.z00),
    Response(Codes.c0418, LengthField.l022, ZoneByte.z00),
    SubSeq(Broadcast(Codes.c1F09, LengthField.l000, <<>>), 1, 49) }

\* Lines the main loop or the grammar check drops: 38 characters, an error
\* marker, a letter in the counter, a line cut inside the command code.
DroppedLines ==
  { SubSeq(Broadcast(Codes.c30C9, LengthField.l003, ZoneByte.z00 \o Centi.v2000), 1, 38),
    Broadcast(Codes.c30C9, LengthField.l003, ZoneByte.z00 \o Centi.v2000) \o <<"E", "R", "R">>,
    <<"x">> \o Tail(Broadcast(Codes.c30C9, LengthField.l003, ZoneByte.z00 \o Centi.v2000)),
    SubSeq(Broadcast(Codes.c30C9, LengthField.l003, ZoneByte.z00 \o Centi.v2000), 1, 43) }

\* A zone id that is no hex number, in a temperature block.
NonHexLines ==
  { Broadcast(Codes.c30C9, LengthField.l003, <<"0", "G">> \o Centi.v2000) }

\* Lines whose two trailing address slots are both addresses, or both null.
SlotLines ==
  { MkLine(Info, TRV, CTL, CTL, Codes.c3150, LengthField.l002, ZoneByte.z00 \o <<"C", "8">>),
    MkLine(Info, CTL, NullAddr, NullAddr, Codes.c30C9, LengthField.l003, ZoneByte.z00 \o Centi.v2000) }

\* A setpoint of exactly 100.00.
CeilingLines ==
  { Broadcast(Codes.c2309, LengthField.l003, ZoneByte.z00 \o Centi.v10000) }

Lines ==
  TemperatureLines \cup SetpointLines \cup ZoneInfoLines \cup ZoneNameLines
  \cup HeatDemandLines \cup DeviceInfoLines \cup OtherLines \cup ShortPayloadLines
  \cup DroppedLines \cup NonHexLines \cup SlotLines \cup CeilingLines

\* ------------------------------------------------------------------ state

VARIABLES
  zoneNames,     \* the zone store: zone id -> ZoneInfo
  commandQueue,  \* the buffered channel of Commands
  proc,          \* "running", "panicked" (a runtime panic) or "exited" (log.Fatal)
  mainpc,        \* where the main goroutine stands
  started,       \* commands main has queued before its loop
  iters,         \* iterations main's loop has begun
  inhand,        \* the command SendCommand is sending, as a sequence of 0 or 1
  written,       \* what SendCommand wrote last, and whether the write failed
  last,          \* the outcome of the last ReadLine and of what it led to
  waitGroup,     \* the WaitGroup's counter
  hcpc,          \* where the health check goroutine stands
  stale,         \* time.Since(lastReceivedMessage).Minutes() > 2
  port,          \* the serial port: "open" or "closed"
  refreshpc,     \* where the refresh goroutine stands
  refreshIdx,    \* commands the refresh goroutine has queued in this cycle
  cycles,        \* refresh cycles begun
  exported,      \* the zones of the last accumulated measurement inserted
  published,     \* the ZoneInfoMap of the state last written to the configmap
  reading        \* the store as each task found it when it began the read it is in

vars ==
  << zoneNames, commandQueue, proc, mainpc, started, iters, inhand, written, last,
     waitGroup, hcpc, stale, port, refreshpc, refreshIdx, cycles, exported, published,
     reading >>

\* What the export and the state goroutines leave behind.
taskVars == << exported, published, reading >>

\* The record of a ReadLine that led to no decoder.
NoRun(kind, rawmsg) ==
  [ kind |-> kind, message |-> EmptyMessage(rawmsg), prevZones |-> zoneNames,
    prevQueue |-> commandQueue, emitted |-> <<>>, inserts |-> 0, enq |-> <<>>,
    handler |-> "" ]

\* main, lines 304-332: the three commands queued before the loop.
StartupCommands ==
  << RequestCommand("heartbeat", <<0>>),
     RequestCommand("controller_mode", <<255>>),
     RequestCommand("device_info", <<0, 0, 0>>) >>

Init ==
  /\ zoneNames = InitialZones
  /\ commandQueue = <<>>
  /\ proc = "running"
  /\ mainpc = "startup"
  /\ started = 0
  /\ iters = 0
  /\ inhand = <<>>
  /\ written = [line |-> <<>>, failed |-> FALSE]
  /\ last = [ kind |-> "none", message |-> EmptyMessage(<<>>), prevZones |-> InitialZones,
              prevQueue |-> <<>>, emitted |-> <<>>, inserts |-> 0, enq |-> <<>>,
              handler |-> "" ]
  /\ waitGroup = 0
  /\ hcpc = "sleep"
  /\ stale = FALSE
  /\ port = "open"
  /\ refreshpc = "queue"
  /\ refreshIdx = 0
  /\ cycles = 1
  /\ exported = {}
  /\ published = <<>>
  /\ reading = <<>>

\* ---------------------------------------------------------- main goroutine

\* commandQueue <- Command{...}, three times: each send needs a free slot.
Startup ==
  /\ proc = "running" /\ mainpc = "startup"
  /\ UNCHANGED taskVars
  /\ Len(commandQueue) < QueueCap
  /\ commandQueue' = Append(commandQueue, StartupCommands[started + 1])
  /\ started' = started + 1
  /\ mainpc' = IF started + 1 = Len(StartupCommands) THEN "wait" ELSE "startup"
  /\ UNCHANGED << zoneNames, proc, iters, inhand, written, last, waitGroup, hcpc, stale,
                  port, refreshpc, refreshIdx, cycles >>

\* waitGroup.Wait() at the top of the loop; a run has at most limit iterations.
MainWait(limit) ==
  /\ proc = "running" /\ mainpc = "wait"
  /\ UNCHANGED taskVars
  /\ iters < limit
  /\ waitGroup = 0
  /\ mainpc' = "select"
  /\ iters' = iters + 1
  /\ UNCHANGED << zoneNames, commandQueue, proc, started, inhand, written, last, waitGroup,
                  hcpc, stale, port, refreshpc, refreshIdx, cycles >>

\* A select that takes every command the queue holds and keeps the first;
\* the rule of one command per iteration must tell it from MainSelect.
MainSelectAll ==
  /\ proc = "running" /\ mainpc = "select"
  /\ UNCHANGED taskVars
  /\ IF commandQueue # <<>>
     THEN /\ inhand' = <<Head(commandQueue)>>
          /\ commandQueue' = <<>>
          /\ mainpc' = "send"
     ELSE /\ mainpc' = "read"
          /\ UNCHANGED << inhand, commandQueue >>
  /\ UNCHANGED << zoneNames, proc, started, iters, written, last, waitGroup, hcpc, stale,
                  port, refreshpc, refreshIdx, cycles >>

\* select { case command := <-commandQueue: ... default: }
MainSelect ==
  /\ proc = "running" /\ mainpc = "select"
  /\ UNCHANGED taskVars
  /\ IF commandQueue # <<>>
     THEN /\ inhand' = <<Head(commandQueue)>>
          /\ commandQueue' = Tail(commandQueue)
          /\ mainpc' = "send"
     ELSE /\ mainpc' = "read"
          /\ UNCHANGED << inhand, commandQueue >>
  /\ UNCHANGED << zoneNames, proc, started, iters, written, last, waitGroup, hcpc, stale,
                  port, refreshpc, refreshIdx, cycles >>

\* A send that puts the command back in the queue when the write fails; the
\* rule that a failed command is dropped must tell it from MainSend.
MainSendRetry(failed) ==
  /\ proc = "running" /\ mainpc = "send"
  /\ UNCHANGED taskVars
  /\ written' = [line |-> CommandString(inhand[1]) \o <<"\r", "\n">>, failed |-> failed]
  /\ inhand' = <<>>
  /\ mainpc' = "read"
  /\ commandQueue' = IF failed THEN Append(commandQueue, inhand[1]) ELSE commandQueue
  /\ UNCHANGED << zoneNames, proc, started, iters, last, waitGroup, hcpc,
                  stale, port, refreshpc, refreshIdx, cycles >>

\* SendCommand: one f.Write, whose error is logged, and a sleep of 2 seconds.
MainSend(failed) ==
  /\ proc = "running" /\ mainpc = "send"
  /\ UNCHANGED taskVars
  /\ written' = [line |-> CommandString(inhand[1]) \o <<"\r", "\n">>, failed |-> failed]
  /\ inhand' = <<>>
  /\ mainpc' = "read"
  /\ UNCHANGED << zoneNames, commandQueue, proc, started, iters, last, waitGroup, hcpc,
                  stale, port, refreshpc, refreshIdx, cycles >>

\* in.ReadLine() returns an error that is not io.EOF.
MainReadError ==
  /\ proc = "running" /\ mainpc = "read"
  /\ UNCHANGED taskVars
  /\ last' = NoRun("error", <<>>)
  /\ mainpc' = "errwait"
  /\ UNCHANGED << zoneNames, commandQueue, proc, started, iters, inhand, written, waitGroup,
                  hcpc, stale, port, refreshpc, refreshIdx, cycles >>

\* in.ReadLine() returns io.EOF (the port's read timed out with no data).
MainReadEOF ==
  /\ proc = "running" /\ mainpc = "read"
  /\ UNCHANGED taskVars
  /\ last' = NoRun("eof", <<>>)
  /\ mainpc' = "wait"
  /\ UNCHANGED << zoneNames, commandQueue, proc, started, iters, inhand, written, waitGroup,
                  hcpc, stale, port, refreshpc, refreshIdx, cycles >>

\* in.ReadLine() returns the start of a line longer than its buffer.
MainReadPrefix(rawmsg) ==
  /\ proc = "running" /\ mainpc = "read"
  /\ UNCHANGED taskVars
  /\ last' = NoRun("prefix", rawmsg)
  /\ mainpc' = "wait"
  /\ UNCHANGED << zoneNames, commandQueue, proc, started, iters, inhand, written, waitGroup,
                  hcpc, stale, port, refreshpc, refreshIdx, cycles >>

\* A check of the length alone, blind to the error markers; the drop rule
\* must tell it from Accepted.
AcceptedUnmarked(rawmsg) == Len(rawmsg) > 40

\* length > 40 && no "_ENC", "_BAD", "BAD" or "ERR" in the line
Accepted(rawmsg) ==
  /\ Len(rawmsg) > 40
  /\ ~Contains(rawmsg, <<"_", "E", "N", "C">>)
  /\ ~Contains(rawmsg, <<"_", "B", "A", "D">>)
  /\ ~Contains(rawmsg, <<"B", "A", "D">>)
  /\ ~Contains(rawmsg, <<"E", "R", "R">>)

\* What the main loop's checks and DecodeMessage make of a line:
\* isValidMessage is asked of an accepted line, DecodeMessage of a valid one.
Telegram(rawmsg) ==
  [ rawmsg |-> rawmsg,
    accepted |-> Accepted(rawmsg),
    valid |-> Accepted(rawmsg) /\ IsValidMessage(rawmsg),
    message |-> IF Accepted(rawmsg) /\ IsValidMessage(rawmsg)
                THEN DecodeMessage(rawmsg)
                ELSE EmptyMessage(rawmsg) ]

\* The lines of the bus with what the parser makes of each (a line's parse
\* depends on the line alone).
Telegrams == { Telegram(rawmsg) : rawmsg \in Lines }

\* The record of a line that reached ProcessMessage.
Ran(kind, message, run) ==
  [ kind |-> kind, message |-> message, prevZones |-> zoneNames,
    prevQueue |-> commandQueue, emitted |-> run.emitted, inserts |-> run.inserts,
    enq |-> run.enq, handler |-> run.handler ]

\* in.ReadLine() returns a whole line: the checks, DecodeMessage and
\* ProcessMessage, to the end of the iteration. A decoder's send to the
\* command queue blocks while the queue is full; main is the queue's only
\* receiver, so a blocked send stays blocked ("enqueue").
MainReadLine(telegram, failAt) ==
  /\ proc = "running" /\ mainpc = "read"
  /\ UNCHANGED taskVars
  /\ UNCHANGED << started, iters, inhand, written, waitGroup, hcpc, port, refreshpc,
                  refreshIdx, cycles >>
  /\ IF ~telegram.accepted
     THEN /\ last' = NoRun("dropped", telegram.rawmsg)
          /\ mainpc' = "wait"
          /\ UNCHANGED << zoneNames, commandQueue, proc, stale >>
     ELSE
       /\ stale' = FALSE
       /\ IF ~telegram.valid
          THEN /\ last' = NoRun("invalid", telegram.rawmsg)
               /\ mainpc' = "wait"
               /\ UNCHANGED << zoneNames, commandQueue, proc >>
          ELSE
            LET message == telegram.message
                run == ProcessMessage(message, zoneNames, failAt)
            IN IF message.panic
               THEN /\ last' = NoRun("panic", telegram.rawmsg)
                    /\ proc' = "panicked"
                    /\ UNCHANGED << zoneNames, commandQueue, mainpc >>
               ELSE
                 /\ zoneNames' = run.zones
                 /\ IF run.panic
                    THEN /\ last' = Ran("panic", message, run)
                         /\ proc' = "panicked"
                         /\ UNCHANGED << commandQueue, mainpc >>
                    ELSE IF run.fatal
                    THEN /\ last' = Ran("fatal", message, run)
                         /\ proc' = "exited"
                         /\ UNCHANGED << commandQueue, mainpc >>
                    ELSE IF Len(commandQueue) + Len(run.enq) > QueueCap
                    THEN /\ last' = Ran("blocked", message, run)
                         /\ mainpc' = "enqueue"
                         /\ UNCHANGED << commandQueue, proc >>
                    ELSE /\ last' = Ran("processed", message, run)
                         /\ commandQueue' = commandQueue \o run.enq
                         /\ mainpc' = "wait"
                         /\ UNCHANGED proc

\* waitGroup.Wait() before main resets the port after a read error
MainErrWait ==
  /\ proc = "running" /\ mainpc = "errwait"
  /\ UNCHANGED taskVars
  /\ waitGroup = 0
  /\ mainpc' = "close"
  /\ UNCHANGED << zoneNames, commandQueue, proc, started, iters, inhand, written, last,
                  waitGroup, hcpc, stale, port, refreshpc, refreshIdx, cycles >>

\* closeSerialPort(f): f.Close() and a sleep of 5 seconds
MainClose ==
  /\ proc = "running" /\ mainpc = "close"
  /\ UNCHANGED taskVars
  /\ port' = "closed"
  /\ mainpc' = "open"
  /\ UNCHANGED << zoneNames, commandQueue, proc, started, iters, inhand, written, last,
                  waitGroup, hcpc, stale, refreshpc, refreshIdx, cycles >>

\* f, in = openSerialPort(): log.Fatal when serial.Open fails
MainOpen(ok) ==
  /\ proc = "running" /\ mainpc = "open"
  /\ UNCHANGED taskVars
  /\ IF ok
     THEN port' = "open" /\ mainpc' = "wait" /\ UNCHANGED proc
     ELSE proc' = "exited" /\ UNCHANGED << port, mainpc >>
  /\ UNCHANGED << zoneNames, commandQueue, started, iters, inhand, written, last,
                  waitGroup, hcpc, stale, refreshpc, refreshIdx, cycles >>

\* Insert numbers that may fail: none, the first, the second.
FailAts == 0..2

MainLoop(telegrams, limit) ==
  \/ MainWait(limit)
  \/ MainSelect
  \/ \E failed \in BOOLEAN : MainSend(failed)
  \/ MainReadEOF
  \/ \E telegram \in telegrams, failAt \in FailAts : MainReadLine(telegram, failAt)

MainReset ==
  \/ MainReadError
  \/ MainErrWait
  \/ MainClose
  \/ \E ok \in BOOLEAN : MainOpen(ok)

\* ------------------------------------------------------- refresh goroutine

\* The commands of a cycle with zone_name and zone_info taking turns.
RefreshCommandInTurns(i) ==
  IF i % 2 = 0
  THEN RequestCommand("zone_name", <<i \div 2, 0>>)
  ELSE RequestCommand("zone_info", <<i \div 2>>)

\* The i-th command of a refresh cycle: zone_name for zones 0..11, then
\* zone_info for zones 0..11.
RefreshCommand(i) ==
  IF i < ZoneCount
  THEN RequestCommand("zone_name", <<i, 0>>)
  ELSE RequestCommand("zone_info", <<i - ZoneCount>>)

\* commandQueue <- Command{...} in the refresh loops: the send needs a free
\* slot; after the 24th the goroutine sleeps.
Refresh ==
  /\ proc = "running" /\ refreshpc = "queue"
  /\ UNCHANGED taskVars
  /\ Len(commandQueue) < QueueCap
  /\ commandQueue' = Append(commandQueue, RefreshCommand(refreshIdx))
  /\ IF refreshIdx + 1 = 2 * ZoneCount
     THEN refreshpc' = "sleep" /\ refreshIdx' = 0
     ELSE refreshIdx' = refreshIdx + 1 /\ UNCHANGED refreshpc
  /\ UNCHANGED << zoneNames, proc, mainpc, started, iters, inhand, written, last,
                  waitGroup, hcpc, stale, port, cycles >>

\* time.Sleep(applyJitter(900) seconds) is over: the next cycle begins.
RefreshWake ==
  /\ proc = "running" /\ refreshpc = "sleep"
  /\ UNCHANGED taskVars
  /\ cycles < MaxCycles
  /\ refreshpc' = "queue"
  /\ cycles' = cycles + 1
  /\ UNCHANGED << zoneNames, commandQueue, proc, mainpc, started, iters, inhand, written,
                  last, waitGroup, hcpc, stale, port, refreshIdx >>

\* -------------------------------------------------- health check goroutine

\* More than two minutes pass without an accepted line.
TimePasses ==
  /\ proc = "running" /\ ~stale
  /\ UNCHANGED taskVars
  /\ stale' = TRUE
  /\ UNCHANGED << zoneNames, commandQueue, proc, mainpc, started, iters, inhand, written,
                  last, waitGroup, hcpc, port, refreshpc, refreshIdx, cycles >>

\* The health check resetting the port at every wake.
HcWakeAlways ==
  /\ proc = "running" /\ hcpc = "sleep"
  /\ UNCHANGED taskVars
  /\ hcpc' = "add"
  /\ UNCHANGED << zoneNames, commandQueue, proc, mainpc, started, iters, inhand, written,
                  last, waitGroup, stale, port, refreshpc, refreshIdx, cycles >>

\* The sleep of about 120 seconds is over:
\* if time.Since(lastReceivedMessage).Minutes() > 2 { ... }
HcWake ==
  /\ proc = "running" /\ hcpc = "sleep"
  /\ UNCHANGED taskVars
  /\ hcpc' = IF stale THEN "add" ELSE "sleep"
  /\ UNCHANGED << zoneNames, commandQueue, proc, mainpc, started, iters, inhand, written,
                  last, waitGroup, stale, port, refreshpc, refreshIdx, cycles >>

\* waitGroup.Add(1)
HcAdd ==
  /\ proc = "running" /\ hcpc = "add"
  /\ UNCHANGED taskVars
  /\ waitGroup' = waitGroup + 1
  /\ hcpc' = "close"
  /\ UNCHANGED << zoneNames, commandQueue, proc, mainpc, started, iters, inhand, written,
                  last, stale, port, refreshpc, refreshIdx, cycles >>

\* closeSerialPort(f): f.Close() and a sleep of 5 seconds
HcClose ==
  /\ proc = "running" /\ hcpc = "close"
  /\ UNCHANGED taskVars
  /\ port' = "closed"
  /\ hcpc' = "open"
  /\ UNCHANGED << zoneNames, commandQueue, proc, mainpc, started, iters, inhand, written,
                  last, waitGroup, stale, refreshpc, refreshIdx, cycles >>

\* f, in = openSerialPort(): log.Fatal when serial.Open fails
HcOpen(ok) ==
  /\ proc = "running" /\ hcpc = "open"
  /\ UNCHANGED taskVars
  /\ IF ok
     THEN port' = "open" /\ hcpc' = "done" /\ UNCHANGED proc
     ELSE proc' = "exited" /\ UNCHANGED << port, hcpc >>
  /\ UNCHANGED << zoneNames, commandQueue, mainpc, started, iters, inhand, written, last,
                  waitGroup, stale, refreshpc, refreshIdx, cycles >>

\* waitGroup.Done()
HcDone ==
  /\ proc = "running" /\ hcpc = "done"
  /\ UNCHANGED taskVars
  /\ waitGroup' = waitGroup - 1
  /\ hcpc' = "sleep"
  /\ UNCHANGED << zoneNames, commandQueue, proc, mainpc, started, iters, inhand, written,
                  last, stale, port, refreshpc, refreshIdx, cycles >>

HealthCheck ==
  \/ HcWake
  \/ HcAdd
  \/ HcClose
  \/ \E ok \in BOOLEAN : HcOpen(ok)
  \/ HcDone

\* ------------------------------------------- export and state goroutines
\* Both read the zone store (zoneInfoMap in main.go, the map the decoders
\* write as zoneNames).

\* func (z ZoneInfo) IsActualZone() bool
IsActualZone(z) == z.ID < 12 /\ z.Name # <<>>

\* The BigQueryZone storeZoneInfoInBiqquery appends for a record.
BigQueryZone(v) ==
  [ ZoneID |-> v.ID,
    ZoneName |-> v.Name,
    Temperature |-> v.Temperature,
    Setpoint |-> IF v.Setpoint > v.MinTemperature /\ v.Setpoint < v.MaxTemperature
                 THEN v.Setpoint ELSE Null,
    HeatDemand |-> v.HeatDemand ]

\* measurement.Zones without the test of the heat demand.
AccumulatedZonesWithoutDemand(zones) ==
  { BigQueryZone(zones[k]) :
      k \in { j \in DOMAIN zones : /\ IsActualZone(zones[j])
                                   /\ zones[j].Temperature # 0 } }

\* measurement.Zones, as a set: the map is ranged over in no fixed order.
AccumulatedZones(zones) ==
  { BigQueryZone(zones[k]) :
      k \in { j \in DOMAIN zones : /\ IsActualZone(zones[j])
                                   /\ zones[j].Temperature # 0
                                   /\ zones[j].HeatDemand # 0 } }

\* storeZoneInfoInBiqquery: the insert's failure is logged, no more.
Export(ok) ==
  /\ proc = "running"
  /\ exported' = IF ok THEN AccumulatedZones(zoneNames) ELSE exported
  /\ UNCHANGED << zoneNames, commandQueue, proc, mainpc, started, iters, inhand, written,
                  last, waitGroup, hcpc, stale, port, refreshpc, refreshIdx, cycles,
                  published, reading >>

\* A state goroutine that loads the store from the state it wrote last,
\* as readStateFromStateFile does at startup; the single-writer rule must
\* tell it from Publish.
PublishLoading(ok) ==
  /\ proc = "running"
  /\ IF ok
     THEN /\ zoneNames' = IF published = <<>> THEN InitialZones ELSE published
          /\ published' = zoneNames
          /\ UNCHANGED proc
     ELSE proc' = "exited" /\ UNCHANGED << zoneNames, published >>
  /\ UNCHANGED << commandQueue, mainpc, started, iters, inhand, written,
                  last, waitGroup, hcpc, stale, port, refreshpc, refreshIdx, cycles,
                  exported, reading >>

\* writeStateToConfigmap: the state is the store as it stands; log.Fatal
\* when the update of the configmap fails.
Publish(ok) ==
  /\ proc = "running"
  /\ IF ok
     THEN published' = zoneNames /\ UNCHANGED proc
     ELSE proc' = "exited" /\ UNCHANGED published
  /\ UNCHANGED << zoneNames, commandQueue, mainpc, started, iters, inhand, written,
                  last, waitGroup, hcpc, stale, port, refreshpc, refreshIdx, cycles,
                  exported, reading >>

\* The two reads in their steps. Neither task takes a lock (the program has
\* no mutex); a read of the map begins, main may run a decoder meanwhile, and
\* the read ends.

\* What a read that began on the store `began` can have seen when the store
\* is `now`: of every zone the record of then or of now, a zone added since
\* or not (a Go map ranged over while it is written).
Seen(began, now) ==
  { [k \in (DOMAIN began \cup W) |-> IF k \in W THEN now[k] ELSE began[k]] :
      W \in SUBSET DOMAIN now }

\* A task begins its read: 'for _, v := range zoneInfoMap' of the export,
\* json.Marshal(state) of the state goroutine.
BeginRead(task) ==
  /\ proc = "running"
  /\ task \notin DOMAIN reading
  /\ reading' = [t \in DOMAIN reading \cup {task} |->
                   IF t = task THEN zoneNames ELSE reading[t]]
  /\ UNCHANGED << zoneNames, commandQueue, proc, mainpc, started, iters, inhand, written,
                  last, waitGroup, hcpc, stale, port, refreshpc, refreshIdx, cycles,
                  exported, published >>

EndRead(task) == [t \in DOMAIN reading \ {task} |-> reading[t]]

\* The export's range ends and the measurement is inserted.
ExportInsert(ok) ==
  /\ proc = "running"
  /\ "export" \in DOMAIN reading
  /\ \E seen \in Seen(reading["export"], zoneNames) :
       exported' = IF ok THEN AccumulatedZones(seen) ELSE exported
  /\ reading' = EndRead("export")
  /\ UNCHANGED << zoneNames, commandQueue, proc, mainpc, started, iters, inhand, written,
                  last, waitGroup, hcpc, stale, port, refreshpc, refreshIdx, cycles,
                  published >>

\* The state is marshalled and the configmap updated.
PublishUpdate(ok) ==
  /\ proc = "running"
  /\ "state" \in DOMAIN reading
  /\ IF ok
     THEN /\ \E seen \in Seen(reading["state"], zoneNames) : published' = seen
          /\ UNCHANGED proc
     ELSE proc' = "exited" /\ UNCHANGED published
  /\ reading' = EndRead("state")
  /\ UNCHANGED << zoneNames, commandQueue, mainpc, started, iters, inhand, written,
                  last, waitGroup, hcpc, stale, port, refreshpc, refreshIdx, cycles,
                  exported >>

\* The Go runtime notices the write under a read and throws "concurrent map
\* iteration and map write": the process ends.
ConcurrentMapFault ==
  /\ proc = "running"
  /\ \E task \in DOMAIN reading : reading[task] # zoneNames
  /\ proc' = "panicked"
  /\ UNCHANGED << zoneNames, commandQueue, mainpc, started, iters, inhand, written,
                  last, waitGroup, hcpc, stale, port, refreshpc, refreshIdx, cycles,
                  exported, published, reading >>

\* ---------------------------------------------------------- specifications

\* The main goroutine alone, reading every line of the bus: what the parser
\* and the decoders make of each line.
Next ==
  \/ Startup
  \/ MainLoop(Telegrams, MaxIter)
  \/ \E rawmsg \in {Broadcast(Codes.c1F09, LengthField.l000, <<>>)} : MainReadPrefix(rawmsg)
  \/ MainReset

Spec == Init /\ [][Next]_vars

\* The lines of the queue specification: a zone-name response that does not
\* decode, and a sync broadcast.
QueueTelegrams ==
  { Telegram(rawmsg) :
      rawmsg \in { Response(Codes.c0004, LengthField.l022, ZoneByte.z00 \o NameHex.reserved \o NameHex.nonHex),
                   Broadcast(Codes.c1F09, LengthField.l003, <<"F", "F", "0", "5", "1", "8">>) } }

\* The main goroutine with the refresh goroutine: the senders and the
\* receiver of the command queue.
NextQueue ==
  \/ MainLoop(QueueTelegrams, MaxQueueIter)
  \/ Refresh
  \/ RefreshWake

\* main has queued its three commands and stands before its loop; the other
\* goroutines have not run yet.
InitQueue ==
  /\ zoneNames = InitialZones
  /\ commandQueue = StartupCommands
  /\ proc = "running"
  /\ mainpc = "wait"
  /\ started = Len(StartupCommands)
  /\ iters = 0
  /\ inhand = <<>>
  /\ written = [line |-> <<>>, failed |-> FALSE]
  /\ last = [ kind |-> "none", message |-> EmptyMessage(<<>>), prevZones |-> InitialZones,
              prevQueue |-> <<>>, emitted |-> <<>>, inserts |-> 0, enq |-> <<>>,
              handler |-> "" ]
  /\ waitGroup = 0
  /\ hcpc = "sleep"
  /\ stale = FALSE
  /\ port = "open"
  /\ refreshpc = "queue"
  /\ refreshIdx = 0
  /\ cycles = 1
  /\ exported = {}
  /\ published = <<>>
  /\ reading = <<>>

\* Every goroutine that can take a step takes one in the end; the read of
\* the port returns in the end (it is a step of the main loop).
SpecQueue ==
  /\ InitQueue
  /\ [][NextQueue]_vars
  /\ WF_vars(MainLoop(QueueTelegrams, MaxQueueIter))
  /\ WF_vars(Refresh \/ RefreshWake)

\* The lines of the port specification: one that is processed, one with an
\* error marker, and one that passes main's checks but not the grammar.
PortTelegrams ==
  { Telegram(rawmsg) :
      rawmsg \in { Broadcast(Codes.c1F09, LengthField.l003, <<"F", "F", "0", "5", "1", "8">>),
                   Broadcast(Codes.c30C9, LengthField.l003, ZoneByte.z00 \o Centi.v2000)
                     \o <<"E", "R", "R">>,
                   <<"x">> \o Tail(Broadcast(Codes.c30C9, LengthField.l003,
                                             ZoneByte.z00 \o Centi.v2000)) } }

\* The main goroutine with the health check goroutine: the users of the
\* serial port and of the WaitGroup.
NextPort ==
  \/ Startup
  \/ MainLoop(PortTelegrams, MaxIter)
  \/ MainReset
  \/ HealthCheck
  \/ TimePasses

SpecPort == Init /\ [][NextPort]_vars

\* The main goroutine alone, for as many iterations as it takes to empty the
\* queue of its three startup commands, on the lines of the queue
\* specification (the zone-name response puts a command in the queue).
NextDrain ==
  \/ Startup
  \/ MainLoop(QueueTelegrams, MaxDrainIter)

SpecDrain == Init /\ [][NextDrain]_vars

\* The store read from a state file: the zones 0 and 1, each with a name and
\* a temperature.
RestoredZones ==
  Put(Put(InitialZones, 0, [NewZoneInfo(0) EXCEPT !.Name = <<65>>, !.Temperature = 2000]),
      1, [NewZoneInfo(1) EXCEPT !.Name = <<66>>, !.Temperature = 2000])

\* The lines of the task specification: a heat demand of a valve for zone 0
\* and a temperature of the controller for zone 0.
TaskTelegrams ==
  { Telegram(rawmsg) :
      rawmsg \in { FromValve(Codes.c3150, LengthField.l002, ZoneByte.z00 \o <<"C", "8">>),
                   Broadcast(Codes.c30C9, LengthField.l003, ZoneByte.z00 \o Centi.v2050) } }

\* Every goroutine of the program: main, the refresh, the export, the state
\* and the health check goroutine. The refresh goroutine ends its cycle and
\* sleeps; its sleep of a quarter of an hour outlasts the run.
NextTasks ==
  \/ MainLoop(TaskTelegrams, MaxQueueIter)
  \/ Refresh
  \/ \E ok \in BOOLEAN : Export(ok)
  \/ \E ok \in BOOLEAN : Publish(ok)
  \/ HealthCheck
  \/ TimePasses

\* main has read a state file, queued its three commands and stands before
\* its loop; the refresh goroutine is two commands from the end of its first
\* cycle.
InitTasks ==
  /\ zoneNames = RestoredZones
  /\ commandQueue = StartupCommands
                    \o [i \in 1..(2 * ZoneCount - 2) |-> RefreshCommand(i - 1)]
  /\ proc = "running"
  /\ mainpc = "wait"
  /\ started = Len(StartupCommands)
  /\ iters = 0
  /\ inhand = <<>>
  /\ written = [line |-> <<>>, failed |-> FALSE]
  /\ last = [ kind |-> "none", message |-> EmptyMessage(<<>>), prevZones |-> RestoredZones,
              prevQueue |-> <<>>, emitted |-> <<>>, inserts |-> 0, enq |-> <<>>,
              handler |-> "" ]
  /\ waitGroup = 0
  /\ hcpc = "sleep"
  /\ stale = FALSE
  /\ port = "open"
  /\ refreshpc = "queue"
  /\ refreshIdx = 2 * ZoneCount - 2
  /\ cycles = 1
  /\ exported = {}
  /\ published = <<>>
  /\ reading = <<>>

SpecTasks == InitTasks /\ [][NextTasks]_vars


\* main with the export and the state goroutine, their reads in steps.
NextRace ==
  \/ MainLoop(TaskTelegrams, MaxIter)
  \/ \E task \in {"export", "state"} : BeginRead(task)
  \/ \E ok \in BOOLEAN : ExportInsert(ok)
  \/ \E ok \in BOOLEAN : PublishUpdate(ok)
  \/ ConcurrentMapFault

\* main has read a state file, queued its three commands and stands before
\* its loop.
InitRace ==
  /\ zoneNames = RestoredZones
  /\ commandQueue = StartupCommands
  /\ proc = "running"
  /\ mainpc = "wait"
  /\ started = Len(StartupCommands)
  /\ iters = 0
  /\ inhand = <<>>
  /\ written = [line |-> <<>>, failed |-> FALSE]
  /\ last = [ kind |-> "none", message |-> EmptyMessage(<<>>), prevZones |-> RestoredZones,
              prevQueue |-> <<>>, emitted |-> <<>>, inserts |-> 0, enq |-> <<>>,
              handler |-> "" ]
  /\ waitGroup = 0
  /\ hcpc = "sleep"
  /\ stale = FALSE
  /\ port = "open"
  /\ refreshpc = "sleep"
  /\ refreshIdx = 0
  /\ cycles = 1
  /\ exported = {}
  /\ published = <<>>
  /\ reading = <<>>

SpecRace == InitRace /\ [][NextRace]_vars

\* ---------------------------------------------------------------- properties
\* The properties read the record `last` of the line main processed last:
\* the message, the store and the queue before it, and what the decoder did.

\* The blocks the temperature and setpoint loops read, in order: the zone id
\* in two characters, the value in the next four
\* (for i := 0; i < 2*payloadLength; i += 6).
Blocks(message) ==
  [ k \in 1..(message.payloadLength \div 3) |->
      [ zoneID |-> ParseInt(Slice(message.payload, 6 * (k - 1), 6 * (k - 1) + 2), 16, 64).val,
        value |-> ParseInt(Slice(message.payload, 6 * (k - 1) + 2, 6 * k), 16, 64).val ] ]

\* The one block of a heat demand message: zone id and demand, two
\* characters each.
DemandBlocks(message) ==
  << [ zoneID |-> ParseInt(Slice(message.payload, 0, 2), 16, 64).val,
       value |-> ParseInt(Slice(message.payload, 2, 4), 16, 64).val ] >>

\* The last line ran the loop of the temperature decoder (of the setpoint
\* decoder, the heat demand decoder) to its end.
DecodedTemperature == last.kind = "processed" /\ last.handler = "zone_temperature"
DecodedSetpoint == last.kind = "processed" /\ last.handler = "setpoint"
DecodedHeatDemand == last.kind = "processed" /\ last.handler = "heat_demand"

\* C1: a temperature or setpoint block whose value is above 100 degrees
\* leaves the zone record's temperature (setpoint) as it was before the
\* telegram. Stated for a zone the store already holds and that the telegram
\* names in one block only.
C1_CeilingRejects ==
  (DecodedTemperature \/ DecodedSetpoint) =>
    LET blocks == Blocks(last.message)
    IN \A k \in DOMAIN blocks :
         ( /\ TemperatureTooHigh(blocks[k].value)
           /\ blocks[k].zoneID \in DOMAIN last.prevZones
           /\ \A j \in DOMAIN blocks : j # k => blocks[j].zoneID # blocks[k].zoneID )
         => IF DecodedTemperature
            THEN zoneNames[blocks[k].zoneID].Temperature
                   = last.prevZones[blocks[k].zoneID].Temperature
            ELSE zoneNames[blocks[k].zoneID].Setpoint
                   = last.prevZones[blocks[k].zoneID].Setpoint

\* C2: for a zone whose minimum and maximum are both known (non-zero) the
\* stored setpoint after a setpoint telegram is the value of the last block
\* for the zone that lies strictly between them, and the setpoint stored
\* before when no block does; for a zone whose bounds are not known, or that
\* the store does not hold, it is the value of the zone's last block.
C2_SetpointGate ==
  DecodedSetpoint =>
    LET blocks == Blocks(last.message)
    IN \A k \in DOMAIN blocks :
         LET z == blocks[k].zoneID
             mine == { j \in DOMAIN blocks : blocks[j].zoneID = z }
             bounded == /\ z \in DOMAIN last.prevZones
                        /\ last.prevZones[z].MinTemperature # 0
                        /\ last.prevZones[z].MaxTemperature # 0
             inside == { j \in mine : /\ blocks[j].value > last.prevZones[z].MinTemperature
                                      /\ blocks[j].value < last.prevZones[z].MaxTemperature }
             latest(S) == CHOOSE j \in S : \A i \in S : i <= j
         IN /\ z \in DOMAIN zoneNames
            /\ zoneNames[z].Setpoint =
                 IF bounded
                 THEN IF inside = {} THEN last.prevZones[z].Setpoint
                      ELSE blocks[latest(inside)].value
                 ELSE blocks[latest(mine)].value

\* C2, its case: a zone with bounds 5.00 and 35.00 and setpoint 20.00 is sent
\* 40.00 and keeps 20.00.
C2_Witness ==
  /\ DecodedSetpoint
  /\ 0 \in DOMAIN last.prevZones
  /\ last.prevZones[0].MinTemperature = 500
  /\ last.prevZones[0].MaxTemperature = 3500
  /\ \E k \in DOMAIN Blocks(last.message) :
       Blocks(last.message)[k] = [zoneID |-> 0, value |-> 4000]
  /\ zoneNames[0].Setpoint = last.prevZones[0].Setpoint

\* The zone ids of the blocks of the last line, in order.
BlockZones ==
  LET blocks == IF DecodedHeatDemand THEN DemandBlocks(last.message)
                ELSE Blocks(last.message)
  IN [k \in DOMAIN blocks |-> blocks[k].zoneID]

\* The zone ids of the measurements the last line inserted, in order.
EmittedZones == [k \in DOMAIN last.emitted |-> last.emitted[k].ZoneID]

\* The store held a non-empty name for the zone before the last line.
NamedBefore(z) == z \in DOMAIN last.prevZones /\ last.prevZones[z].Name # <<>>

ZoneNameResponse ==
  /\ last.kind = "processed"
  /\ mainpc = "wait"
  /\ last.message.commandType = "zone_name"
  /\ last.message.sourceType = "CTL"
  /\ last.message.messageType = RP
  /\ last.message.payloadLength = 22

\* C4: a zone name response whose name does not hex-decode puts exactly one
\* command on the queue, RQ zone_name for the zone id of byte 0 addressed to
\* the controller, and changes no zone record.
C4_RepairOnBadHex ==
  ( /\ ZoneNameResponse
    /\ HexDecodeString(Slice(last.message.payload, 4, Len(last.message.payload))).err )
  => LET zoneID == ParseInt(Slice(last.message.payload, 0, 2), 16, 64).val
         repair == [ messageType |-> RQ, commandName |-> "zone_name", broadcast |-> FALSE,
                     destinationID |-> evohomeID, payload |-> <<zoneID, 0>> ]
     IN /\ last.enq = <<repair>>
        /\ commandQueue = Append(last.prevQueue, repair)
        /\ zoneNames = last.prevZones

\* C4, its case: the response for zone 11 with a name of odd length has put
\* the repair for zone 11 at the end of the queue.
C4_Witness ==
  /\ ZoneNameResponse
  /\ HexDecodeString(Slice(last.message.payload, 4, Len(last.message.payload))).err
  /\ commandQueue # <<>>
  /\ commandQueue[Len(commandQueue)].commandName = "zone_name"
  /\ commandQueue[Len(commandQueue)].payload = <<11, 0>>

\* C5: a device info response of the controller (RP, 22 bytes) whose device
\* number, the last six payload characters, is not zero queues exactly one
\* device_info request for index addr + 1; one whose device number is zero
\* queues nothing.
C5_FollowUp ==
  ( /\ last.kind = "processed"
    /\ last.message.commandType = "device_info"
    /\ last.message.sourceType = "CTL"
    /\ last.message.messageType = RP
    /\ last.message.payloadLength = 22
    /\ InRange(last.message.payload, 38, 44) )
  => LET addr == ParseInt(Slice(last.message.payload, 4, 6), 16, 64).val
         next == ParseInt(Slice(last.message.payload, 38, 44), 16, 64).val
     IN IF next # 0
        THEN last.enq = << [ messageType |-> RQ, commandName |-> "device_info",
                             broadcast |-> FALSE, destinationID |-> evohomeID,
                             payload |-> <<0, 0, addr + 1>> ] >>
        ELSE last.enq = <<>>

\* The health check goroutine is between waitGroup.Add(1) and
\* waitGroup.Done(): it closes and reopens the port.
HcResetting == hcpc \in {"close", "open", "done"}

\* C6: while the health check closes and reopens the port, the main
\* goroutine is in no send and in no read.
C6_MainPausedDuringReset == HcResetting => mainpc \notin {"send", "read"}

\* C7: the reset of the main goroutine after a read error and the reset of
\* the health check are never in progress together.
C7_OneResetAtATime == ~(hcpc \in {"close", "open"} /\ mainpc \in {"close", "open"})

\* C8: the main goroutine is never blocked in a send to the command queue.
C8_EnqueueNeverBlocks == mainpc # "enqueue"

\* C9: as long as the main loop runs, a command in the queue is dequeued and
\* sent in the end (the loop of a run ends, at the top, after MaxQueueIter
\* iterations).
C9_QueueDrains ==
  [](commandQueue # <<>>
       => <>(mainpc = "send" \/ (mainpc = "wait" /\ iters = MaxQueueIter)))

\* C10: a line that passes the length and grammar checks is decoded and
\* processed without a runtime fault, and main goes on to the next line.
C10_ValidLineCompletes == last.kind # "panic"

\* The last ReadLine returned a whole line (no error, no end of file, no
\* prefix of a longer line).
ReadWholeLine == last.kind \notin {"none", "error", "eof", "prefix"}

\* The last line passed the main loop's checks and the grammar check, and
\* DecodeMessage returned its Message.
Decoded == last.kind \in {"processed", "panic", "fatal", "blocked"} /\ last.handler # ""

\* C11: DecodeMessage returns a Message for every line that passes the main
\* loop's length and marker checks and IsValidMessage, and the same Message
\* each time.
C11_ParseTotal ==
  ( /\ ReadWholeLine
    /\ Accepted(last.message.rawmsg)
    /\ IsValidMessage(last.message.rawmsg) )
  => /\ ~DecodeMessage(last.message.rawmsg).panic
     /\ DecodeMessage(last.message.rawmsg) = DecodeMessage(last.message.rawmsg)

\* The characters of the payload that a decoder reads as a hex number: every
\* character of a temperature, setpoint or heat demand payload; in a zone
\* info block of 12 all but the flags at offsets 2 and 3.
HexFieldOffsets(message) ==
  IF message.commandType = "zone_info"
  THEN { i \in 0..(Len(message.payload) - 1) : (i % 12) \notin {2, 3} }
  ELSE 0..(Len(message.payload) - 1)

\* C12: a temperature, setpoint, zone info or heat demand telegram with a
\* character that is no hex digit in a zone id or value field goes to the
\* logging fallback: no zone record changes and no measurement is inserted.
C12_NonHexToFallback ==
  ( /\ last.kind = "processed"
    /\ last.message.commandType \in
         {"zone_temperature", "setpoint", "zone_info", "zone_heat_demand", "relay_heat_demand"}
    /\ \E i \in HexFieldOffsets(last.message) : ~IsHexChar(last.message.payload[i + 1]) )
  => /\ last.handler = "unknown"
     /\ zoneNames = last.prevZones
     /\ last.emitted = <<>>

\* C13: a zone info telegram whose payload length is no multiple of 6 bytes
\* goes to the fallback without a fault and changes no zone record.
C13_ZoneInfoSixByteBlocks ==
  ( /\ Decoded
    /\ last.message.commandType = "zone_info"
    /\ last.message.payloadLength % 6 # 0 )
  => /\ last.kind = "processed"
     /\ last.handler = "unknown"
     /\ zoneNames = last.prevZones

\* ------------------------------------------------------------ the encoder
\* SendCommand as a function of its command: the specification starts with
\* any one command in main's hand and sends it.

\* The commands handed to SendCommand: every name of the catalog, to the
\* controller or as a broadcast, with no payload value, one, or three (the
\* values {0, 0, addr + 1} of ProcessDeviceInfoMessage's follow-up, for the
\* addr bytes 00 and FF).
EncodedCommands ==
  { [ messageType |-> RQ, commandName |-> p[2], broadcast |-> b,
      destinationID |-> evohomeID, payload |-> values ] :
      p \in commandsMap, b \in BOOLEAN,
      values \in {<<>>, <<0>>, <<255>>, <<0, 0, 1>>, <<0, 0, 256>>} }

InitEncode ==
  /\ zoneNames = InitialZones
  /\ commandQueue = <<>>
  /\ proc = "running"
  /\ mainpc = "send"
  /\ started = Len(StartupCommands)
  /\ iters = 1
  /\ inhand \in { <<command>> : command \in EncodedCommands }
  /\ written = [line |-> <<>>, failed |-> FALSE]
  /\ last = [ kind |-> "none", message |-> EmptyMessage(<<>>), prevZones |-> InitialZones,
              prevQueue |-> <<>>, emitted |-> <<>>, inserts |-> 0, enq |-> <<>>,
              handler |-> "" ]
  /\ waitGroup = 0
  /\ hcpc = "sleep"
  /\ stale = FALSE
  /\ port = "open"
  /\ refreshpc = "queue"
  /\ refreshIdx = 0
  /\ cycles = 1
  /\ exported = {}
  /\ published = <<>>
  /\ reading = <<>>

NextEncode == \E failed \in BOOLEAN : MainSend(failed)

SpecEncode == InitEncode /\ [][NextEncode]_vars

\* C14: the line SendCommand writes for a command (without its "\r\n")
\* passes the main loop's checks and IsValidMessage, and DecodeMessage reads
\* from it the command's name, the sender's address and the command's
\* destination (the sender's own address for a broadcast).
C14_RoundTrip ==
  [][ (mainpc = "send" /\ mainpc' = "read") =>
        LET command == inhand[1]
            line == SubSeq(written'.line, 1, Len(written'.line) - 2)
            destination == IF command.broadcast THEN SendSource ELSE command.destinationID
        IN /\ Accepted(line)
           /\ IsValidMessage(line)
           /\ ~DecodeMessage(line).panic
           /\ DecodeMessage(line).commandType = command.commandName
           /\ DecodeMessage(line).sourceTypeCode \o <<":">> \o DecodeMessage(line).sourceID
                = SendSource
           /\ DecodeMessage(line).destinationTypeCode \o <<":">>
                \o DecodeMessage(line).destinationID = destination ]_vars

\* The two trailing address slots of a line, at their fixed offsets.
SecondSlot(rawmsg) == Slice(rawmsg, 21, 30)
ThirdSlot(rawmsg) == Slice(rawmsg, 31, 40)

\* Exactly one of the two trailing slots is the null address.
OneNullSlot(rawmsg) == (SecondSlot(rawmsg) = NullAddr) # (ThirdSlot(rawmsg) = NullAddr)

\* C15: a line that gets past the main loop's checks and the grammar check
\* has the null address in exactly one of its two trailing slots.
C15_OneNullSlotAccepted ==
  (ReadWholeLine /\ last.kind \notin {"dropped", "invalid"})
  => OneNullSlot(last.message.rawmsg)

\* C16: for every decoded line, the destination type code and id are those
\* of a trailing slot that is not the null address, and the broadcast flag
\* says whether the source address equals that slot.
C16_Destination ==
  Decoded =>
    LET rawmsg == last.message.rawmsg
    IN \E slot \in {SecondSlot(rawmsg), ThirdSlot(rawmsg)} :
         /\ slot # NullAddr
         /\ last.message.destinationTypeCode = SubSeq(slot, 1, 2)
         /\ last.message.destinationID = SubSeq(slot, 4, 9)
         /\ last.message.isBroadcast = (SubSeq(rawmsg, 12, 20) = slot)

\* The command names ProcessMessage hands to a decoder of their own.
DecoderNames ==
  { "zone_name", "relay_heat_demand", "zone_info", "device_info", "setpoint",
    "zone_temperature", "zone_heat_demand" }

\* The catalog's names for a command code, compared in upper case.
CatalogNames(commandCode) == { p[2] : p \in { q \in commandsMap : q[1] = ToUpper(commandCode) } }

\* C17: a processed line's command name is the catalog's name for its code
\* in upper case, and "unknown" when the catalog has none; a line whose name
\* is "unknown" or any name without a decoder of its own runs the fallback,
\* which leaves the zone store and the command queue as they were and emits
\* no measurement.
C17_UnknownAndFallback ==
  Decoded =>
    /\ IF CatalogNames(last.message.commandCode) = {}
       THEN last.message.commandType = "unknown"
       ELSE last.message.commandType \in CatalogNames(last.message.commandCode)
    /\ last.message.commandType \notin DecoderNames =>
         /\ last.kind = "processed"
         /\ last.handler = "unknown"
         /\ zoneNames = last.prevZones
         /\ last.enq = <<>>
         /\ mainpc = "wait" => commandQueue = last.prevQueue
         /\ last.emitted = <<>>

\* C17, its cases: a line with code 7FFF, which the catalog does not hold,
\* and a sync line, have been processed by the fallback.
C17_Witness ==
  /\ last.kind = "processed"
  /\ last.handler = "unknown"
  /\ mainpc = "wait"
  /\ \/ last.message.commandCode = Codes.c7FFF /\ last.message.commandType = "unknown"
     \/ last.message.commandCode = Codes.c1F09 /\ last.message.commandType = "sync"

\* The error markers the firmware puts in a line it could not decode.
ErrorMarkers ==
  { <<"_", "E", "N", "C">>, <<"_", "B", "A", "D">>, <<"B", "A", "D">>, <<"E", "R", "R">> }

\* C18: a line split by the reader, a line of 40 characters or fewer, a line
\* holding an error marker and a line that fails the grammar check are
\* dropped: no decoder runs, nothing is emitted or enqueued, the zone store
\* and the command queue stay as they were.
C18_Dropped ==
  ( \/ last.kind = "prefix"
    \/ /\ ReadWholeLine
       /\ \/ Len(last.message.rawmsg) <= 40
          \/ \E marker \in ErrorMarkers : Contains(last.message.rawmsg, marker)
          \/ ~IsValidMessage(last.message.rawmsg) )
  => /\ last.kind \in {"prefix", "dropped", "invalid"}
     /\ last.handler = ""
     /\ last.emitted = <<>>
     /\ last.enq = <<>>
     /\ zoneNames = last.prevZones
     /\ mainpc = "wait" => commandQueue = last.prevQueue
     /\ proc = "running"

\* C18, its cases: the 38-character line and the line with the ERR marker
\* have been read and dropped.
C18_Witness ==
  /\ last.kind = "dropped"
  /\ mainpc = "wait"
  /\ \/ Len(last.message.rawmsg) = 38
     \/ Contains(last.message.rawmsg, <<"E", "R", "R">>)

\* C18, the grammar check: the line with a letter in its counter has been
\* read and dropped.
C18_WitnessInvalid ==
  /\ last.kind = "invalid"
  /\ Len(last.message.rawmsg) > 49

\* 100.00 degrees, in hundredths.
Ceiling == 100 * 100

\* C19: a temperature block of exactly 100.00 degrees is stored in the zone
\* record; a setpoint block of exactly 100.00 degrees is stored unless the
\* record has both bounds and the value is not strictly between them, and
\* then the setpoint stays as it was. Stated for a zone the telegram names
\* in one block only.
C19_CeilingAccepted ==
  (DecodedTemperature \/ DecodedSetpoint) =>
    LET blocks == Blocks(last.message)
    IN \A k \in DOMAIN blocks :
         LET z == blocks[k].zoneID
             bounded == /\ z \in DOMAIN last.prevZones
                        /\ last.prevZones[z].MinTemperature # 0
                        /\ last.prevZones[z].MaxTemperature # 0
         IN ( /\ blocks[k].value = Ceiling
              /\ \A j \in DOMAIN blocks : j # k => blocks[j].zoneID # z )
            => /\ z \in DOMAIN zoneNames
               /\ IF DecodedTemperature
                  THEN zoneNames[z].Temperature = Ceiling
                  ELSE IF bounded /\ ~( /\ Ceiling > last.prevZones[z].MinTemperature
                                        /\ Ceiling < last.prevZones[z].MaxTemperature )
                  THEN zoneNames[z].Setpoint = last.prevZones[z].Setpoint
                  ELSE zoneNames[z].Setpoint = Ceiling

\* C19, its case for a temperature: a block of 100.00 degrees for zone 0 has
\* been decoded and zone 0 holds 100.00.
C19_Witness ==
  /\ DecodedTemperature
  /\ Blocks(last.message) = << [zoneID |-> 0, value |-> Ceiling] >>
  /\ 0 \in DOMAIN zoneNames
  /\ zoneNames[0].Temperature = Ceiling

\* C19, its case for a setpoint: a block of 100.00 degrees for zone 0 has
\* been decoded and zone 0 holds 100.00.
C19_WitnessSetpoint ==
  /\ DecodedSetpoint
  /\ Blocks(last.message) = << [zoneID |-> 0, value |-> Ceiling] >>
  /\ 0 \in DOMAIN zoneNames
  /\ zoneNames[0].Setpoint = Ceiling

\* C19, the gated case: a setpoint block of 100.00 degrees for a zone with
\* bounds has been decoded and the setpoint is not 100.00.
C19_WitnessGated ==
  /\ DecodedSetpoint
  /\ Blocks(last.message) = << [zoneID |-> 0, value |-> Ceiling] >>
  /\ 0 \in DOMAIN last.prevZones
  /\ last.prevZones[0].MaxTemperature # 0
  /\ zoneNames[0].Setpoint # Ceiling

\* The command names of the two heat demand variants.
HeatDemandNames == { "zone_heat_demand", "relay_heat_demand" }

\* C20: a processed heat demand telegram, zone or relay variant, with a
\* payload length of 2 leaves the zone of its first byte with a heat demand
\* of r / 200 * 100 percent, r the raw value of its second byte (the store
\* holds hundredths of a percent: twice the stored value is r * 100); with
\* any other payload length the fallback runs, the store stays as it was
\* and nothing is emitted.
C20_HeatDemand ==
  (last.kind = "processed" /\ last.message.commandType \in HeatDemandNames) =>
    IF last.message.payloadLength = 2
    THEN LET z == DemandBlocks(last.message)[1].zoneID
             r == DemandBlocks(last.message)[1].value
         IN /\ last.handler = "heat_demand"
            /\ z \in DOMAIN zoneNames
            /\ 2 * zoneNames[z].HeatDemand = r * 100
    ELSE /\ last.handler = "unknown"
         /\ zoneNames = last.prevZones
         /\ last.emitted = <<>>
         /\ last.enq = <<>>

\* C20, its case: the payload 00C8 of a zone heat demand telegram has been
\* processed and zone 0 holds a demand of 100.00 percent.
C20_Witness ==
  /\ last.kind = "processed"
  /\ last.message.commandType = "zone_heat_demand"
  /\ last.message.payload = <<"0", "0", "C", "8">>
  /\ 0 \in DOMAIN zoneNames
  /\ zoneNames[0].HeatDemand = 100 * 100

\* C20, the relay variant and the other lengths: a relay heat demand has
\* been stored; a heat demand telegram of three bytes has gone to the
\* fallback.
C20_WitnessRelay ==
  /\ last.kind = "processed"
  /\ last.message.commandType = "relay_heat_demand"
  /\ last.handler = "heat_demand"
  /\ 252 \in DOMAIN zoneNames
  /\ zoneNames[252].HeatDemand = 50 * 100

C20_WitnessOtherLength ==
  /\ last.kind = "processed"
  /\ last.message.commandType \in HeatDemandNames
  /\ last.message.payloadLength = 3
  /\ last.handler = "unknown"

\* The last line was a zone temperature or setpoint telegram of the
\* controller, no request, with a payload length of 3k bytes, and its
\* decoder ran to the end.
BlocksTelegram ==
  /\ last.kind = "processed"
  /\ last.message.commandType \in {"zone_temperature", "setpoint"}
  /\ last.message.sourceType = "CTL"
  /\ last.message.messageType # RQ
  /\ last.message.payloadLength % 3 = 0

\* C21: such a telegram holds every block its length declares and runs its
\* own decoder, which makes one update per 3-byte block, in payload order: the store gains exactly the zones the
\* blocks name, a temperature block leaves its value in its zone (the value
\* of the later block when two name the same zone), a setpoint block does so
\* through the bounds gate, and the measurements inserted are those of the
\* emitting blocks, in payload order, each with its block's zone and value.
C21_BlockUpdates ==
  BlocksTelegram =>
    LET blocks == Blocks(last.message)
        temperature == last.message.commandType = "zone_temperature"
        pairs == [k \in DOMAIN blocks |-> <<blocks[k].zoneID, blocks[k].value>>]
        emits(p) == p[1] >= 12 \/ NamedBefore(p[1])
        inserted == [k \in DOMAIN last.emitted |->
                       << last.emitted[k].ZoneID,
                          IF temperature THEN last.emitted[k].Temperature
                          ELSE last.emitted[k].Setpoint >>]
        latest(S) == CHOOSE j \in S : \A i \in S : i <= j
    IN /\ Len(last.message.payload) >= 2 * last.message.payloadLength
       /\ last.handler = last.message.commandType
       /\ 3 * Len(blocks) = last.message.payloadLength
       /\ DOMAIN zoneNames = DOMAIN last.prevZones \cup { blocks[k].zoneID : k \in DOMAIN blocks }
       /\ inserted = SelectSeq(pairs, emits)
       /\ last.inserts = Len(SelectSeq(pairs, emits))
       /\ \A k \in DOMAIN blocks :
            LET z == blocks[k].zoneID
                mine == { j \in DOMAIN blocks : blocks[j].zoneID = z }
                bounded == /\ z \in DOMAIN last.prevZones
                           /\ last.prevZones[z].MinTemperature # 0
                           /\ last.prevZones[z].MaxTemperature # 0
            IN IF temperature
               THEN zoneNames[z].Temperature = blocks[latest(mine)].value
               ELSE IF bounded
               THEN zoneNames[z].Setpoint \in
                      { last.prevZones[z].Setpoint } \cup { blocks[j].value : j \in mine }
               ELSE zoneNames[z].Setpoint = blocks[latest(mine)].value

\* C21, its case for two zones: a temperature telegram of 6 bytes with the
\* blocks (0, 20.50) and (11, 20.00) has left both values in the store.
C21_Witness ==
  /\ BlocksTelegram
  /\ Blocks(last.message) = << [zoneID |-> 0, value |-> 2050], [zoneID |-> 11, value |-> 2000] >>
  /\ last.handler = "zone_temperature"
  /\ zoneNames[0].Temperature = 2050
  /\ zoneNames[11].Temperature = 2000

\* C21, its case for one zone named twice: a setpoint telegram with the
\* blocks (0, 20.00) and (0, 40.00) for a zone without bounds has left 40.00.
C21_WitnessLater ==
  /\ BlocksTelegram
  /\ Blocks(last.message) = << [zoneID |-> 0, value |-> 2000], [zoneID |-> 0, value |-> 4000] >>
  /\ 0 \notin DOMAIN last.prevZones
  /\ zoneNames[0].Setpoint = 4000

\* The line just read is the line read before it, a zone temperature
\* telegram its decoder ran to the end both times.
SameTemperatureAgain ==
  /\ DecodedTemperature
  /\ DecodedTemperature'
  /\ last' # last
  /\ last'.message.rawmsg = last.message.rawmsg
  /\ last'.prevZones = zoneNames

\* C22: decoding the zone temperature telegram that was decoded just before
\* leaves the zone store as the first decoding left it.
C22_Idempotent == [][SameTemperatureAgain => zoneNames' = zoneNames]_vars

\* C22, its case: the telegram with the blocks (0, 20.50) and (11, 20.00) has
\* been decoded for the second time, on a store that the first decoding of
\* it had changed (nothing else stores 20.00 for zone 11), and the store is
\* as it was.
C22_Witness ==
  /\ DecodedTemperature
  /\ Blocks(last.message) = << [zoneID |-> 0, value |-> 2050], [zoneID |-> 11, value |-> 2000] >>
  /\ 11 \in DOMAIN last.prevZones
  /\ last.prevZones[11].Temperature = 2000
  /\ last.prevZones[0].Temperature = 2050
  /\ zoneNames = last.prevZones

\* The fields of a zone record that the decoder of the last line writes.
OwnFields ==
  CASE last.handler = "zone_name" -> {"Name"}
    [] last.handler = "zone_info" -> {"MinTemperature", "MaxTemperature"}
    [] last.handler = "zone_temperature" -> {"Temperature"}
    [] last.handler = "setpoint" -> {"Setpoint"}
    [] last.handler = "heat_demand" -> {"HeatDemand"}
    [] OTHER -> {}

\* The zone ids the blocks of the last line name, for a line whose decoder
\* read every block.
NamedZones ==
  LET payload == last.message.payload
      id(o) == ParseInt(Slice(payload, o, o + 2), 16, 64).val
  IN CASE last.handler = "zone_name" -> {id(0)}
       [] last.handler = "heat_demand" -> {id(0)}
       [] last.handler = "zone_info" ->
            { id(12 * (k - 1)) : k \in 1..(last.message.payloadLength \div 6) }
       [] last.handler \in {"zone_temperature", "setpoint"} ->
            { id(6 * (k - 1)) : k \in 1..(last.message.payloadLength \div 3) }
       [] OTHER -> {}

\* A record with its id and nothing known: no name, every value zero.
BlankRecord(z) ==
  [ ID |-> z, Name |-> <<>>, MinTemperature |-> 0, MaxTemperature |-> 0,
    Temperature |-> 0, Setpoint |-> 0, HeatDemand |-> 0 ]

\* C23: whatever decoder ran on the last line, no record left the store; a
\* record the store held before differs from what it was in the decoder's
\* own fields at most; a record that is new has its zone's id and, outside
\* the decoder's own fields, no name and zero values; and when the decoder
\* ran to the end, only zones that a block names are new or changed.
C23_Merge ==
  Decoded =>
    /\ DOMAIN last.prevZones \subseteq DOMAIN zoneNames
    /\ \A z \in DOMAIN zoneNames :
         LET before == IF z \in DOMAIN last.prevZones THEN last.prevZones[z]
                       ELSE BlankRecord(z)
         IN /\ DOMAIN zoneNames[z] = DOMAIN before
            /\ zoneNames[z].ID = z
            /\ \A f \in DOMAIN before \ OwnFields : zoneNames[z][f] = before[f]
    /\ last.kind = "processed" =>
         \A z \in DOMAIN zoneNames \ NamedZones :
           z \in DOMAIN last.prevZones /\ zoneNames[z] = last.prevZones[z]

\* C23, its case of a merge: a relay heat demand for zone 252, which the store
\* holds under its name, has left the name and set the demand.
C23_Witness ==
  /\ DecodedHeatDemand
  /\ NamedZones = {252}
  /\ last.prevZones[252].Name = OpenthermName
  /\ last.prevZones[252].HeatDemand = 0
  /\ zoneNames[252].Name = OpenthermName
  /\ zoneNames[252].HeatDemand = 50 * 100

\* C23, its case of a creation: zone information for zone 0, which the store
\* did not hold, has created a record with the bounds and nothing else.
C23_WitnessCreated ==
  /\ last.kind = "processed"
  /\ last.handler = "zone_info"
  /\ NamedZones = {0}
  /\ 0 \notin DOMAIN last.prevZones
  /\ zoneNames[0] = [BlankRecord(0) EXCEPT !.MinTemperature = 500, !.MaxTemperature = 3500]

\* C23, a merge into a record with several fields known: a temperature for
\* a zone that has bounds has left the bounds.
C23_WitnessBounds ==
  /\ DecodedTemperature
  /\ NamedZones = {0}
  /\ 0 \in DOMAIN last.prevZones
  /\ last.prevZones[0].MaxTemperature = 3500
  /\ zoneNames[0].MaxTemperature = 3500
  /\ zoneNames[0].Temperature # last.prevZones[0].Temperature

\* What a step of the main loop may do to the command queue and the port's
\* output: the queue loses a command only in the select, and then its head
\* alone; the select leads to the send when the queue holds a command and
\* straight to the read when it holds none; the send writes the command
\* taken and leads to the read; a select is entered only from the top of
\* the loop, as a new iteration.
OnePerIteration ==
  /\ Len(commandQueue') < Len(commandQueue) =>
       /\ mainpc = "select" /\ mainpc' = "send"
       /\ commandQueue' = Tail(commandQueue)
       /\ inhand' = <<Head(commandQueue)>>
  /\ mainpc = "select" =>
       IF commandQueue = <<>>
       THEN mainpc' = "read" /\ written' = written /\ inhand' = inhand
       ELSE mainpc' = "send"
  /\ mainpc = "send" => mainpc' = "read" /\ inhand' = <<>> /\ commandQueue' = commandQueue
  /\ written' # written => mainpc = "send"
  /\ (mainpc' = "select" /\ mainpc # "select") => (mainpc = "wait" /\ iters' = iters + 1)
  /\ (mainpc' = "read" /\ mainpc # "read") => mainpc \in {"select", "send"}

\* C24: an iteration of the main loop takes at most one command from the
\* queue and sends it before its read; with an empty queue the select does
\* not wait, it goes on to the read.
C24_OnePerIteration ==
  /\ [][OnePerIteration]_vars
  /\ []((proc = "running" /\ mainpc = "select") => ENABLED MainSelect)

\* C24, its cases: the second iteration stands before its read with the
\* second startup command written and one command left in the queue; a later
\* iteration stands before its read with nothing taken from the empty queue.
C24_Witness ==
  /\ mainpc = "read"
  /\ iters = 2
  /\ written.line = CommandString(StartupCommands[2]) \o <<"\r", "\n">>
  /\ commandQueue = <<StartupCommands[3]>>

C24_WitnessEmpty ==
  /\ mainpc = "read"
  /\ iters = 4
  /\ commandQueue = <<>>
  /\ inhand = <<>>
  /\ written.line = CommandString(StartupCommands[3]) \o <<"\r", "\n">>

\* What becomes of a command taken from the queue: the send writes it, and
\* whether or not the write fails the command is gone from main's hand, the
\* queue is as it was, the process runs on and the read is next; the queue
\* gains a command only at startup or from the decoder of a line read.
WrittenOnce ==
  /\ mainpc = "send" =>
       /\ written'.line = CommandString(inhand[1]) \o <<"\r", "\n">>
       /\ inhand' = <<>>
       /\ commandQueue' = commandQueue
       /\ proc' = "running"
       /\ mainpc' = "read"
  /\ Len(commandQueue') > Len(commandQueue) =>
       /\ mainpc \in {"startup", "read"}
       /\ mainpc = "read" => commandQueue' = commandQueue \o last'.enq

\* C25: a command taken from the queue is written once; when the write fails
\* the command is dropped, neither queued again nor written again, and the
\* loop goes on to its read.
C25_FailedWriteDrops == [][WrittenOnce]_vars

\* C25, its case: the write of the first startup command has failed; main
\* stands before the read of the same iteration, holds no command, and the
\* queue holds the other two startup commands.
C25_Witness ==
  /\ mainpc = "read"
  /\ proc = "running"
  /\ iters = 1
  /\ written = [line |-> CommandString(StartupCommands[1]) \o <<"\r", "\n">>, failed |-> TRUE]
  /\ inhand = <<>>
  /\ commandQueue = <<StartupCommands[2], StartupCommands[3]>>

\* C26: while main handles a read error, waiting for a reset in progress,
\* closing the port and opening it again, no step ends the process, failed
\* open included.
C26_TransportFaultSurvives ==
  [][(mainpc \in {"errwait", "close", "open"}) => (proc' = "running")]_vars

\* The zone ids of the blocks that a telegram's decoder reads when the
\* telegram is one of the three with measurements, comes whole and passes
\* its decoder's guard; no blocks otherwise.
MeasuredZones(message) ==
  IF /\ ~message.panic
     /\ message.commandType \in HeatDemandNames
     /\ message.payloadLength = 2
     /\ Len(message.payload) >= 4
  THEN << DemandBlocks(message)[1].zoneID >>
  ELSE IF /\ ~message.panic
          /\ message.commandType \in {"zone_temperature", "setpoint"}
          /\ message.sourceType = "CTL"
          /\ message.messageType # RQ
          /\ message.payloadLength % 3 = 0
          /\ Len(message.payload) >= 2 * message.payloadLength
  THEN [k \in DOMAIN Blocks(message) |-> Blocks(message)[k].zoneID]
  ELSE <<>>

\* MeasuredZones of every line of the bus.
MeasuredTable == [telegram \in Telegrams |-> MeasuredZones(telegram.message)]

\* A step that reads a line whose decoder comes to its failAt-th insert,
\* with that insert failing, ends the process there: the inserts before it
\* are the measurements emitted, and a zone that only blocks after the
\* failing one name is as it was.
InsertFailureIsFatal ==
  mainpc = "read" =>
    \A telegram \in Telegrams :
      ( /\ telegram.rawmsg = last'.message.rawmsg
        /\ telegram.valid
        /\ MeasuredTable[telegram] # <<>> )
      => \A failAt \in FailAts \ {0} :
           LET zones == MeasuredTable[telegram]
               emits(k) == \/ zones[k] >= 12
                           \/ zones[k] \in DOMAIN zoneNames /\ zoneNames[zones[k]].Name # <<>>
               emitting == { k \in DOMAIN zones : emits(k) }
               failing == CHOOSE k \in emitting :
                            Cardinality({ j \in emitting : j <= k }) = failAt
           IN ( /\ Cardinality(emitting) >= failAt
                /\ MainReadLine(telegram, failAt) )
              => /\ proc' = "exited"
                 /\ last'.kind = "fatal"
                 /\ last'.inserts = failAt
                 /\ Len(last'.emitted) = failAt - 1
                 /\ \A z \in (DOMAIN zoneNames' \cup DOMAIN zoneNames)
                               \ { zones[k] : k \in 1..failing } :
                      /\ z \in DOMAIN zoneNames
                      /\ z \in DOMAIN zoneNames'
                      /\ zoneNames'[z] = zoneNames[z]

\* C27: a failed insert of a measurement ends the process at that insert,
\* and a process that has ended takes no further step: it decodes no block
\* and no line and sends no command.
C27_InsertFailureFatal ==
  /\ [][InsertFailureIsFatal]_vars
  /\ [][proc # "running" => FALSE]_vars

\* C27, its case: the temperature telegram with blocks for zones 0 and 11
\* was read when zone 0 had a name; the insert for zone 0 failed, the
\* process has exited, and zone 11 is not in the store.
C27_Witness ==
  /\ last.kind = "fatal"
  /\ proc = "exited"
  /\ last.handler = "zone_temperature"
  /\ MeasuredZones(last.message) = <<0, 11>>
  /\ last.inserts = 1
  /\ last.emitted = <<>>
  /\ zoneNames[0].Temperature = 2050
  /\ 11 \notin DOMAIN zoneNames

\* A step that changes the zone store is a step of main's read of a line
\* that a decoder ran on, and changes nothing of the other goroutines; a step
\* of the refresh goroutine changes the command queue, by one command at its
\* end, and nothing else outside the goroutine.
SingleWriter ==
  /\ zoneNames' # zoneNames =>
       /\ mainpc = "read"
       /\ last'.handler \notin {"", "unknown"}
       /\ last'.prevZones = zoneNames
       /\ UNCHANGED << refreshpc, refreshIdx, cycles, hcpc, waitGroup, port, exported,
                       published >>
  /\ << refreshpc, refreshIdx, cycles >>' # << refreshpc, refreshIdx, cycles >> =>
       /\ commandQueue' \in { commandQueue, Append(commandQueue, RefreshCommand(refreshIdx)) }
       /\ UNCHANGED << zoneNames, proc, mainpc, started, iters, inhand, written, last,
                       waitGroup, hcpc, stale, port, exported, published >>
  /\ (exported' # exported \/ published' # published \/ hcpc' # hcpc) =>
       zoneNames' = zoneNames

\* C28: only main's decoding of a line changes the zone store; the refresh
\* goroutine writes to the command queue alone, and the export, the state
\* and the health check goroutine leave the store as it is.
C28_SingleWriter == [][SingleWriter]_vars

\* C28, its case: every goroutine has run next to a decoder's write: the heat
\* demand of zone 0 is in the store, written by main; the export has read it,
\* the state has been written, the refresh goroutine has queued the last
\* command of its cycle and the health check has reset the port.
C28_Witness ==
  /\ zoneNames[0].HeatDemand = 100 * 100
  /\ last.handler = "heat_demand"
  /\ exported # {}
  /\ published = zoneNames
  /\ refreshpc = "sleep"
  /\ hcpc = "done"

\* C29: reverseCommandsMap is the inverse of commandsMap: the code of the name
\* of every code of the catalog is that code, the name of the code of every
\* name of the catalog is that name, and the reverse map has as many keys as
\* the catalog; so the code SendCommand writes into a line is a code of the
\* catalog that reads back as itself.
C29_ReverseIsInverse ==
  /\ \A p \in commandsMap : ReverseLookup(MapLookup(commandsMap, p[1])) = p[1]
  /\ \A p \in commandsMap : MapLookup(commandsMap, ReverseLookup(p[2])) = p[2]
  /\ Cardinality({ p[1] : p \in reverseCommandsMap })
       = Cardinality({ p[1] : p \in commandsMap })
  /\ written.line # <<>> =>
       \E p \in commandsMap :
          /\ Contains(written.line, Sp \o p[1] \o Sp)
          /\ ReverseLookup(MapLookup(commandsMap, p[1])) = p[1]

\* C29, its case: SendCommand has looked the code of device_info up in the
\* reverse map and written it into the line.
C29_Witness ==
  /\ mainpc = "read"
  /\ Contains(written.line, Sp \o Codes.c0418 \o Sp)
  /\ MapLookup(commandsMap, Codes.c0418) = "device_info"
  /\ ReverseLookup("device_info") = Codes.c0418

\* C30: a zone_name line stores a name only when it is a response (RP) with a
\* declared payload length of 22; a zone_name line of any other message type
\* or length is handled by ProcessUnknownMessage: it changes no zone record,
\* queues no command and inserts no measurement.
C30_NameOnlyForResponse ==
  ( /\ last.kind \in {"processed", "panic", "fatal", "blocked"}
    /\ last.message.commandType = "zone_name" )
  => /\ zoneNames # last.prevZones =>
          /\ last.message.messageType = RP
          /\ last.message.payloadLength = 22
     /\ (last.message.messageType # RP \/ last.message.payloadLength # 22) =>
          /\ last.kind = "processed"
          /\ last.handler = "unknown"
          /\ zoneNames = last.prevZones
          /\ last.enq = <<>>
          /\ last.emitted = <<>>

\* C30, its case: the controller's zone_name line of type I with 22 bytes and
\* the name "B" for zone 0 went to the fallback and left zone 0 without it.
C30_Witness ==
  /\ last.kind = "processed"
  /\ last.message.rawmsg
       = Broadcast(Codes.c0004, LengthField.l022, ZoneByte.z00 \o NameHex.reserved \o NameHex.b)
  /\ last.message.messageType # RP
  /\ last.handler = "unknown"
  /\ 0 \in DOMAIN zoneNames => zoneNames[0].Name # <<66>>

\* C30, the response of 3 bytes: the fallback as well.
C30_WitnessShort ==
  /\ last.kind = "processed"
  /\ last.message.commandType = "zone_name"
  /\ last.message.messageType = RP
  /\ last.message.payloadLength = 3
  /\ last.handler = "unknown"

\* C30, the response of 22 bytes: the name is in the store.
C30_WitnessStored ==
  /\ last.kind = "processed"
  /\ last.message.commandType = "zone_name"
  /\ last.message.messageType = RP
  /\ last.message.payloadLength = 22
  /\ last.handler = "zone_name"
  /\ zoneNames # last.prevZones
  /\ zoneNames[0].Name = <<65>>

\* A step of the refresh goroutine: it appends to the queue the one request
\* of its position in the cycle, RQ zone_name {i, 0} for the positions 0..11
\* and RQ zone_info {i} for the positions 12..23, to the controller; after
\* the last it sleeps, and only waking starts the next cycle at position 0.
RefreshStep ==
  << refreshpc, refreshIdx, cycles >>' # << refreshpc, refreshIdx, cycles >> =>
    IF refreshpc = "queue"
    THEN /\ refreshIdx \in 0..23
         /\ commandQueue' = Append(commandQueue,
              [ messageType |-> RQ,
                commandName |-> IF refreshIdx < 12 THEN "zone_name" ELSE "zone_info",
                broadcast |-> FALSE,
                destinationID |-> evohomeID,
                payload |-> IF refreshIdx < 12 THEN <<refreshIdx, 0>> ELSE <<refreshIdx - 12>> ])
         /\ IF refreshIdx = 23
            THEN refreshpc' = "sleep" /\ refreshIdx' = 0
            ELSE refreshpc' = "queue" /\ refreshIdx' = refreshIdx + 1
         /\ cycles' = cycles
    ELSE /\ refreshIdx = 0 /\ refreshIdx' = 0
         /\ refreshpc' = "queue"
         /\ commandQueue' = commandQueue

\* The refresh goroutine has finished its first cycle and main has not taken
\* a command yet.
FirstCycleQueued ==
  /\ refreshpc = "sleep" /\ cycles = 1
  /\ inhand = <<>> /\ written.line = <<>> /\ last.kind = "none"

\* C31: a cycle of the refresh goroutine queues 24 requests to the controller
\* and nothing else: zone_name for the zones 0..11 in ascending order, then
\* zone_info for the zones 0..11; so the queue main finds after the first
\* cycle is its three startup commands followed by these 24.
C31_RefreshCycle ==
  /\ [][RefreshStep]_vars
  /\ [](FirstCycleQueued =>
         commandQueue = StartupCommands
           \o [i \in 1..12 |-> [ messageType |-> RQ, commandName |-> "zone_name",
                                  broadcast |-> FALSE, destinationID |-> evohomeID,
                                  payload |-> <<i - 1, 0>> ]]
           \o [i \in 1..12 |-> [ messageType |-> RQ, commandName |-> "zone_info",
                                  broadcast |-> FALSE, destinationID |-> evohomeID,
                                  payload |-> <<i - 1>> ]])

\* C31, its case: the first cycle is queued whole behind the startup
\* commands, the zone_info request for zone 11 last.
C31_Witness ==
  /\ FirstCycleQueued
  /\ Len(commandQueue) = Len(StartupCommands) + 24
  /\ commandQueue[Len(StartupCommands) + 1].commandName = "zone_name"
  /\ commandQueue[Len(commandQueue)].commandName = "zone_info"
  /\ commandQueue[Len(commandQueue)].payload = <<11>>

\* C31, a second cycle begins at position 0.
C31_WitnessSecond == cycles = 2 /\ refreshpc = "queue" /\ refreshIdx = 1

HealthCheckStep ==
  /\ (hcpc = "sleep" /\ hcpc' # hcpc) => (stale /\ hcpc' = "add" /\ port' = port)
  /\ (hcpc = "add" /\ hcpc' # hcpc) => (hcpc' = "close" /\ port' = port)
  /\ (hcpc = "close" /\ hcpc' # hcpc) => (hcpc' = "open" /\ port' = "closed")
  /\ (hcpc = "open" /\ hcpc' # hcpc) => (hcpc' = "done" /\ port' = "open")
  /\ (hcpc = "done" /\ hcpc' # hcpc) => (hcpc' = "sleep" /\ port' = port)
  /\ port' # port =>
       \/ hcpc \in {"close", "open"} /\ hcpc' # hcpc
       \/ mainpc \in {"close", "open"} /\ mainpc' # mainpc

\* C33: when the health check wakes more than two minutes after the last
\* line main accepted, it closes and reopens the port; when it wakes within
\* two minutes of such a line it does nothing to the port. Only a line that
\* passes main's length and marker checks counts as received.
C33_HealthCheck ==
  /\ [][HealthCheckStep]_vars
  /\ [][(stale /\ ~stale') =>
          (mainpc = "read" /\ last'.kind \notin {"none", "error", "eof", "prefix", "dropped"})]_vars
  /\ []((proc = "running" /\ hcpc = "sleep" /\ stale) => ENABLED <<HcWake>>_vars)
  /\ []((proc = "running" /\ hcpc = "sleep" /\ ~stale) => ~ENABLED <<HcWake>>_vars)

\* C33, its case: no accepted line for more than two minutes, and the health
\* check has closed the port and opened it again.
C33_Witness ==
  /\ stale
  /\ hcpc = "done"
  /\ port = "open"
  /\ waitGroup = 1

\* C33, a dropped line does not count: main has read a line it does not
\* accept, and the port still counts as silent.
C33_WitnessDropped == stale /\ last.kind = "dropped" /\ hcpc = "close"

\* C33, a line that fails the grammar counts: main has passed it through its
\* checks, and the health check that wakes now goes back to sleep.
C33_WitnessInvalid == ~stale /\ last.kind = "invalid" /\ hcpc = "sleep" /\ port = "open"

\* C34: no decoder writes the zone store while the export or the state
\* goroutine is in its read of it.
C34_NoReadDuringWrite == [][zoneNames' # zoneNames => DOMAIN reading = {}]_vars

\* C35: every measurement the temperature, the setpoint or the heat demand
\* decoder inserts carries the value the zone's record holds after the block
\* (a setpoint the bounds gate kept out of the record is not inserted).
\* Stated for a zone the telegram names in one block only.
C35_EmittedIsStored ==
  (DecodedTemperature \/ DecodedSetpoint \/ DecodedHeatDemand) =>
    \A n \in DOMAIN last.emitted :
      LET m == last.emitted[n]
          z == m.ZoneID
      IN Cardinality({ k \in DOMAIN BlockZones : BlockZones[k] = z }) = 1 =>
           /\ z \in DOMAIN zoneNames
           /\ DecodedTemperature => m.Temperature = zoneNames[z].Temperature
           /\ DecodedSetpoint => m.Setpoint = zoneNames[z].Setpoint
           /\ DecodedHeatDemand => m.DemandPercentage = zoneNames[z].HeatDemand

\* The commands whose decoders test the source for the controller.
ControllerOnly == { "zone_name", "zone_info", "device_info", "setpoint", "zone_temperature" }

\* C36: a zone_name, zone_info, device_info, setpoint or zone_temperature
\* line whose source is not the controller is handled by
\* ProcessUnknownMessage: it changes no zone record, inserts no measurement
\* and queues no command.
C36_ControllerOnly ==
  ( /\ Decoded
    /\ last.message.commandType \in ControllerOnly
    /\ last.message.sourceType # "CTL" )
  => /\ last.kind = "processed"
     /\ last.handler = "unknown"
     /\ zoneNames = last.prevZones
     /\ last.emitted = <<>>
     /\ last.inserts = 0
     /\ last.enq = <<>>

\* C36, its case: a valve's zone_info line with bounds for zone 0 went to the
\* fallback and left zone 0 out of the store.
C36_Witness ==
  /\ last.kind = "processed"
  /\ last.message.commandType = "zone_info"
  /\ last.message.sourceType = "TRV"
  /\ last.message.messageType # RQ
  /\ last.message.payloadLength = 6
  /\ last.handler = "unknown"
  /\ 0 \notin DOMAIN zoneNames

\* C36, every one of the five commands has come from a valve.
C36_WitnessEach ==
  /\ last.kind = "processed"
  /\ last.message.sourceType = "TRV"
  /\ last.message.commandType \in ControllerOnly \ {"zone_info"}
  /\ last.handler = "unknown"

\* C37: a name in the store is never replaced by the empty name and never
\* cleared. A zone name response that hex-decodes to a name that is empty
\* after stripping and trimming leaves the store as it was; a line handled by
\* any other decoder leaves every name as it was and gives a zone it adds no
\* name.
C37_NameKept ==
  /\ \A z \in DOMAIN last.prevZones :
       last.prevZones[z].Name # <<>> =>
         z \in DOMAIN zoneNames /\ zoneNames[z].Name # <<>>
  /\ ( /\ ZoneNameResponse
       /\ ~HexDecodeString(Slice(last.message.payload, 4, Len(last.message.payload))).err
       /\ ZoneNameString(HexDecodeString(
             Slice(last.message.payload, 4, Len(last.message.payload))).bytes) = <<>> )
     => zoneNames = last.prevZones
  /\ last.handler # "zone_name" =>
       \A z \in DOMAIN zoneNames :
         zoneNames[z].Name = IF z \in DOMAIN last.prevZones
                             THEN last.prevZones[z].Name ELSE <<>>

\* C37, its case: zone 0 is named "A"; the response with the empty name for
\* zone 0 has been processed and the name is still "A".
C37_Witness ==
  /\ ZoneNameResponse
  /\ last.message.payload = ZoneByte.z00 \o NameHex.reserved \o NameHex.empty
  /\ 0 \in DOMAIN last.prevZones
  /\ last.prevZones[0].Name = <<65>>
  /\ zoneNames[0].Name = <<65>>

\* C37, another decoder: the temperature of the named zone 0 is stored and
\* its name kept.
C37_WitnessOther ==
  /\ DecodedTemperature
  /\ 0 \in DOMAIN last.prevZones
  /\ last.prevZones[0].Name = <<65>>
  /\ zoneNames[0].Name = <<65>>
  /\ zoneNames[0].Temperature # last.prevZones[0].Temperature

\* The zones of the store that an accumulated measurement holds: id below
\* 12, a name, a temperature and a heat demand that are not zero.
ExportedIds ==
  { k \in DOMAIN zoneNames : /\ zoneNames[k].ID < 12
                             /\ zoneNames[k].Name # <<>>
                             /\ zoneNames[k].Temperature # 0
                             /\ zoneNames[k].HeatDemand # 0 }

\* C38: an accumulated measurement that is inserted holds exactly the zones
\* of the store with an id below 12, a name, a temperature that is not zero
\* and a heat demand that is not zero, each with its id, name, temperature
\* and heat demand; every other zone is left out.
C38_Accumulated ==
  [][ exported' # exported =>
        /\ { e.ZoneID : e \in exported' } = { zoneNames[k].ID : k \in ExportedIds }
        /\ \A e \in exported' :
             \E k \in ExportedIds :
               /\ e.ZoneID = zoneNames[k].ID
               /\ e.ZoneName = zoneNames[k].Name
               /\ e.Temperature = zoneNames[k].Temperature
               /\ e.HeatDemand = zoneNames[k].HeatDemand ]_vars

\* C38, its case: the measurement holds zone 0 alone; zone 1, with a name and
\* a temperature but no heat demand, and the boiler interface with its id of
\* 252 are left out.
C38_Witness ==
  /\ { e.ZoneID : e \in exported } = {0}
  /\ zoneNames[0].HeatDemand # 0
  /\ zoneNames[1].Name # <<>> /\ zoneNames[1].Temperature # 0 /\ zoneNames[1].HeatDemand = 0
  /\ zoneNames[252].Name # <<>>

\* C39: every record of the store has the id it is stored under, and a zone
\* id the store held before a line is still in it after the line, whatever
\* the line and however its decoder ended.
C39_KeyedById ==
  /\ \A k \in DOMAIN zoneNames : zoneNames[k].ID = k
  /\ \A k \in DOMAIN last.prevZones : last.prevZones[k].ID = k
  /\ DOMAIN last.prevZones \subseteq DOMAIN zoneNames

\* C39, its case: a second line has added zone 12 to a store that held the
\* boiler interface and zone 0, each under its own id.
C39_Witness ==
  /\ last.kind = "processed"
  /\ DOMAIN last.prevZones = {0, 252}
  /\ DOMAIN zoneNames = {0, 12, 252}
  /\ zoneNames[12].ID = 12
  /\ zoneNames[0] = last.prevZones[0]

====
